---- MODULE Spec2Model ----
(***************************************************************************)
(* The generic actor-per-resource framework of src/src/actor_framework.rs: *)
(* one ResourceActor (bounded mailbox, store, id generator), its           *)
(* ResourceClient handles and the tasks that call them.                    *)
(*                                                                         *)
(* The entity managed by the actor is the SimpleUser of the framework's    *)
(* own test, widened to what the Entity trait allows: every hook returns a *)
(* Result, so each hook may also fail, and a hook that takes &mut self may *)
(* fail before or after it changed the instance.                           *)
(***************************************************************************)
EXTENDS Integers, Sequences, FiniteSets, TLC

\* ------------------------------------------------------------- bounds
\* Number of client calls started in one behaviour.
MaxReqs == 3
\* Number of tasks that may hold a clone of the client.
NumTasks == 2
\* Ids a caller may name in Get/Update/Delete/Action: next_id(1)..next_id(MaxIds).
MaxIds == 1
\* Largest buffer_size handed to ResourceActor::new (mpsc::channel capacity).
buffer_size == 2

Tasks == 1..NumTasks
\* The error string a failing entity hook returns, one per hook.
HookError(hook) == hook \o " failed"
HookErrors ==
    {HookError(h) : h \in {"from_create", "on_create", "on_update", "on_delete",
                           "handle_action"}}

\* ------------------------------------------------------------- values
None == [some |-> FALSE]
Some(v) == [some |-> TRUE, v |-> v]

Ok(v) == [ok |-> TRUE, val |-> v]
Err(e) == [ok |-> FALSE, err |-> e]
Unit == [unit |-> TRUE]
IdVal(i) == [id |-> i]
BoolVal(b) == [bool |-> b]

\* enum FrameworkError
ActorClosed == [kind |-> "ActorClosed"]
ActorDropped == [kind |-> "ActorDropped"]
NotFound(s) == [kind |-> "NotFound", msg |-> s]
Custom(s) == [kind |-> "Custom", msg |-> s]

\* The id generator of the test and of OrderSystem::new: the counter value
\* formatted as "user_<n>".
next_id(n) == "user_" \o ToString(n)

TargetIds == {next_id(k) : k \in 1..MaxIds}

\* ------------------------------------------------------------- entity
\* struct SimpleUser { id, name, is_admin, created_at }
SimpleUser(id, name, is_admin) ==
    [id |-> id, name |-> name, is_admin |-> is_admin, created_at |-> 100]

\* enum UserAction
PromoteToAdmin == [op |-> "PromoteToAdmin"]
Rename(n) == [op |-> "Rename", name |-> n]

\* The payload, the patch and the action that test_resource_actor_with_actions
\* sends (Rename is never sent there).
CreatePayloads == {[name |-> "Alice"]}
Patches == {[name |-> Some("Bob")]}
Actions == {PromoteToAdmin}

\* Entity::from_create: SimpleUser's builds the instance from the id and the
\* payload; the trait lets it fail.
SimpleUserFromCreate(id, payload) == SimpleUser(id, payload.name, FALSE)

from_create(id, payload) ==
    {Ok(SimpleUserFromCreate(id, payload)), Err(HookError("from_create"))}

\* Entity::on_create(&mut self): the default does nothing and succeeds; the
\* trait lets an override fail.
on_create(item) ==
    {[item |-> item, res |-> r] : r \in {Ok(Unit), Err(HookError("on_create"))}}

\* SimpleUser::on_update: sets the name when the patch carries one.
SimpleUserOnUpdate(item, patch) ==
    IF patch.name.some THEN [item EXCEPT !.name = patch.name.v] ELSE item

\* Entity::on_update(&mut self, patch): the patch applied, or a failure
\* returned before or after the hook changed the instance in place.
on_update(item, patch) ==
    {[item |-> SimpleUserOnUpdate(item, patch), res |-> Ok(Unit)]}
    \cup {[item |-> m, res |-> Err(HookError("on_update"))] :
            m \in {item, SimpleUserOnUpdate(item, patch)}}

\* Entity::on_delete(&self): the default succeeds; the trait lets an override
\* fail.
on_delete(item) ==
    {Ok(Unit), Err(HookError("on_delete"))}

\* SimpleUser::handle_action
SimpleUserHandleAction(item, action) ==
    IF action.op = "PromoteToAdmin"
    THEN IF item.is_admin
         THEN [item |-> item, res |-> Ok(BoolVal(FALSE))]
         ELSE [item |-> [item EXCEPT !.is_admin = TRUE], res |-> Ok(BoolVal(TRUE))]
    ELSE [item |-> [item EXCEPT !.name = action.name], res |-> Ok(BoolVal(TRUE))]

\* Entity::handle_action(&mut self, action): the action's result, or a failure
\* returned before or after the hook changed the instance in place.
handle_action(item, action) ==
    {SimpleUserHandleAction(item, action)}
    \cup {[item |-> m, res |-> Err(HookError("handle_action"))] :
            m \in {item, SimpleUserHandleAction(item, action).item}}

\* ------------------------------------------------------------- requests
\* enum ResourceRequest<T>, as the client methods build it (the reply channel
\* is the rid the call stamps on the request).
create(payload) == [kind |-> "Create", payload |-> payload]
get(id) == [kind |-> "Get", id |-> id]
update(id, patch) == [kind |-> "Update", id |-> id, patch |-> patch]
delete(id) == [kind |-> "Delete", id |-> id]
perform_action(id, action) == [kind |-> "Action", id |-> id, action |-> action]

Calls ==
    {create(p) : p \in CreatePayloads}
    \cup {get(i) : i \in TargetIds}
    \cup {update(i, p) : i \in TargetIds, p \in Patches}
    \cup {delete(i) : i \in TargetIds}
    \cup {perform_action(i, a) : i \in TargetIds, a \in Actions}

NoReq == [rid |-> 0, task |-> 0, body |-> [kind |-> "None"]]
\* A oneshot channel nothing was sent into, with its sender still held.
NoReply == [ok |-> FALSE, err |-> [kind |-> "NoReply"]]
\* A oneshot channel whose sender was dropped unused: response.await yields
\* Err(RecvError).
RecvError == [ok |-> FALSE, err |-> [kind |-> "RecvError"]]

\* Faulty variant: a failed send reported as a dropped reply channel
send_map_err_dropped == Err(ActorDropped)

\* sender.send(..).await.map_err(|_| FrameworkError::ActorClosed)?
send_map_err == Err(ActorClosed)

\* Faulty variant: the reply is unwrapped and any failure reported as a
\* dropped channel
response_await_flattens(v) == IF v.ok THEN v ELSE Err(ActorDropped)

\* response.await.map_err(|_| FrameworkError::ActorDropped)?
response_await(v) == IF v = RecvError THEN Err(ActorDropped) ELSE v

\* ------------------------------------------------------------- store
\* HashMap<T::Id, T>
EmptyStore == [k \in {} |-> None]
Insert(st, id, item) == [k \in DOMAIN st \cup {id} |-> IF k = id THEN item ELSE st[k]]
Remove(st, id) == [k \in DOMAIN st \ {id} |-> st[k]]
StoreGet(st, id) == IF id \in DOMAIN st THEN Some(st[id]) ELSE None

\* ------------------------------------------------------------- the match arms of run
\* An arm's outcome: the store it leaves, the counter of the id generator, the
\* values it passed to respond_to.send (in order), the hooks it called (in
\* order) and the instance its hooks worked on: for a Create whose from_create
\* succeeded what from_create built, for an Update or an Action on a present id
\* the stored instance as on_update or handle_action left it.
Outcome(st, cnt, sends, hooks, built) ==
    [store |-> st, counter |-> cnt, sends |-> sends, hooks |-> hooks, built |-> built]

\* Faulty variant: the counter is read but not advanced
next_id_fn_stuck(cnt) == [id |-> next_id(cnt), counter |-> cnt]

\* next_id_fn: counter.fetch_add(1) formatted
next_id_fn(cnt) == [id |-> next_id(cnt), counter |-> cnt + 1]

\* Faulty variant: the entity's error string is replaced by a generic one
CreateFromCreateFailedGeneric(st, cnt, e) ==
    Outcome(st, cnt, <<Err(Custom("create failed"))>>, <<"from_create">>, None)

\* Faulty variant: the id minted for a failed Create is handed back
CreateFromCreateFailedReclaims(st, cnt, e) ==
    Outcome(st, cnt - 1, <<Err(Custom(e))>>, <<"from_create">>, None)

\* Create, from_create failed (line 171)
CreateFromCreateFailed(st, cnt, e) ==
    Outcome(st, cnt, <<Err(Custom(e))>>, <<"from_create">>, None)

\* Faulty variant: on_create failed and the arm continues without replying
CreateOnCreateFailedNoReply(st, cnt, id, built, e) ==
    Outcome(st, cnt, <<>>, <<"from_create", "on_create">>, Some(built))

\* Faulty variant: the instance was inserted before on_create ran and stays
CreateOnCreateFailedInserted(st, cnt, id, built, e) ==
    Outcome(Insert(st, id, built), cnt, <<Err(Custom(e))>>,
            <<"from_create", "on_create">>, Some(built))

\* Create, on_create failed (lines 164-167): reply and continue
CreateOnCreateFailed(st, cnt, id, built, e) ==
    Outcome(st, cnt, <<Err(Custom(e))>>, <<"from_create", "on_create">>, Some(built))

\* Faulty variant: an id that is already a key keeps its entity
CreateInsertKeepsExisting(st, cnt, id, built, item) ==
    Outcome(IF id \in DOMAIN st THEN st ELSE Insert(st, id, item), cnt,
            <<Ok(IdVal(id))>>, <<"from_create", "on_create">>, Some(built))

\* Create, both hooks succeeded (lines 168-169): insert and reply the id
CreateInsert(st, cnt, id, built, item) ==
    Outcome(Insert(st, id, item), cnt, <<Ok(IdVal(id))>>,
            <<"from_create", "on_create">>, Some(built))

\* The Create arm (lines 160-172) with g what (self.next_id_fn)() returned: the
\* id and the generator's state afterwards.
RunCreateWith(g, st, payload) ==
    UNION {
        IF fc.ok
        THEN {IF oc.res.ok
              THEN CreateInsert(st, g.counter, g.id, fc.val, oc.item)
              ELSE CreateOnCreateFailed(st, g.counter, g.id, fc.val, oc.res.err)
              : oc \in on_create(fc.val)}
        ELSE {CreateFromCreateFailed(st, g.counter, fc.err)}
        : fc \in from_create(g.id, payload)}

RunCreate(st, cnt, payload) == RunCreateWith(next_id_fn(cnt), st, payload)

\* Faulty variant: Get takes the instance out of the store instead of cloning it
RunGetTakes(st, cnt, id) ==
    {Outcome(IF id \in DOMAIN st THEN Remove(st, id) ELSE st, cnt,
             <<Ok(StoreGet(st, id))>>, <<>>, None)}

\* Faulty variant: Get treats absence as an error
RunGetNotFound(st, cnt, id) ==
    {Outcome(st, cnt,
             <<IF id \in DOMAIN st THEN Ok(StoreGet(st, id)) ELSE Err(NotFound(id))>>,
             <<>>, None)}

\* Get (lines 174-177)
RunGet(st, cnt, id) ==
    {Outcome(st, cnt, <<Ok(StoreGet(st, id))>>, <<>>, None)}

\* Faulty variant: absence reported as an entity failure
ReplyNotFoundAsCustom(st, cnt, id) ==
    Outcome(st, cnt, <<Err(Custom(id))>>, <<>>, None)

\* the NotFound reply of Update, Delete and Action (lines 186, 198, 207)
ReplyNotFound(st, cnt, id) ==
    Outcome(st, cnt, <<Err(NotFound(id))>>, <<>>, None)

\* Faulty variant: a successful Update replies the instance as it was before
\* the patch
UpdatePresentRepliesStale(st, cnt, id, ou) ==
    IF ou.res.ok
    THEN Outcome(Insert(st, id, ou.item), cnt, <<Ok(st[id])>>, <<"on_update">>,
                 Some(ou.item))
    ELSE Outcome(Insert(st, id, ou.item), cnt, <<Err(Custom(ou.res.err))>>,
                 <<"on_update">>, Some(ou.item))

\* Faulty variant: a failed Update puts the instance back as it was
UpdatePresentRollback(st, cnt, id, ou) ==
    IF ou.res.ok
    THEN Outcome(Insert(st, id, ou.item), cnt, <<Ok(ou.item)>>, <<"on_update">>,
                 Some(ou.item))
    ELSE Outcome(st, cnt, <<Err(Custom(ou.res.err))>>, <<"on_update">>, Some(ou.item))

\* Update on a present id (lines 179-184): on_update works on the stored
\* instance in place
UpdatePresent(st, cnt, id, ou) ==
    IF ou.res.ok
    THEN Outcome(Insert(st, id, ou.item), cnt, <<Ok(ou.item)>>, <<"on_update">>,
                 Some(ou.item))
    ELSE Outcome(Insert(st, id, ou.item), cnt, <<Err(Custom(ou.res.err))>>,
                 <<"on_update">>, Some(ou.item))

RunUpdate(st, cnt, id, patch) ==
    IF id \in DOMAIN st
    THEN {UpdatePresent(st, cnt, id, ou) : ou \in on_update(st[id], patch)}
    ELSE {ReplyNotFound(st, cnt, id)}

\* Faulty variant: the entry is removed before on_delete is asked
DeletePresentRemovesFirst(st, cnt, id, od) ==
    IF od.ok
    THEN Outcome(Remove(st, id), cnt, <<Ok(Unit)>>, <<"on_delete">>, None)
    ELSE Outcome(Remove(st, id), cnt, <<Err(Custom(od.err))>>, <<"on_delete">>, None)

\* Faulty variant: a successful Delete leaves the entry in the store
DeletePresentKeeps(st, cnt, id, od) ==
    IF od.ok
    THEN Outcome(st, cnt, <<Ok(Unit)>>, <<"on_delete">>, None)
    ELSE Outcome(st, cnt, <<Err(Custom(od.err))>>, <<"on_delete">>, None)

\* Delete on a present id (lines 190-196)
DeletePresent(st, cnt, id, od) ==
    IF od.ok
    THEN Outcome(Remove(st, id), cnt, <<Ok(Unit)>>, <<"on_delete">>, None)
    ELSE Outcome(st, cnt, <<Err(Custom(od.err))>>, <<"on_delete">>, None)

\* Faulty variant: deleting an absent id succeeds
RunDeleteIdempotent(st, cnt, id) ==
    IF id \in DOMAIN st
    THEN {DeletePresent(st, cnt, id, od) : od \in on_delete(st[id])}
    ELSE {Outcome(st, cnt, <<Ok(Unit)>>, <<>>, None)}

RunDelete(st, cnt, id) ==
    IF id \in DOMAIN st
    THEN {DeletePresent(st, cnt, id, od) : od \in on_delete(st[id])}
    ELSE {ReplyNotFound(st, cnt, id)}

\* Faulty variant: handle_action runs on a clone, the stored instance stays
ActionPresentOnClone(st, cnt, id, ha) ==
    Outcome(st, cnt,
            <<IF ha.res.ok THEN ha.res ELSE Err(Custom(ha.res.err))>>,
            <<"handle_action">>, Some(ha.item))

\* Faulty variant: an instance whose action failed is evicted
ActionPresentEvictsOnError(st, cnt, id, ha) ==
    Outcome(IF ha.res.ok THEN Insert(st, id, ha.item) ELSE Remove(st, id), cnt,
            <<IF ha.res.ok THEN ha.res ELSE Err(Custom(ha.res.err))>>,
            <<"handle_action">>, Some(ha.item))

\* Action on a present id (lines 202-205): handle_action's result with its
\* error wrapped by map_err(FrameworkError::Custom)
ActionPresent(st, cnt, id, ha) ==
    Outcome(Insert(st, id, ha.item), cnt,
            <<IF ha.res.ok THEN ha.res ELSE Err(Custom(ha.res.err))>>,
            <<"handle_action">>, Some(ha.item))

RunAction(st, cnt, id, action) ==
    IF id \in DOMAIN st
    THEN {ActionPresent(st, cnt, id, ha) : ha \in handle_action(st[id], action)}
    ELSE {ReplyNotFound(st, cnt, id)}

\* match msg { ... } of ResourceActor::run with g what the generator returns
\* when the arm calls it
RunMatchWith(g, st, cnt, body) ==
    CASE body.kind = "Create" -> RunCreateWith(g, st, body.payload)
      [] body.kind = "Get" -> RunGet(st, cnt, body.id)
      [] body.kind = "Update" -> RunUpdate(st, cnt, body.id, body.patch)
      [] body.kind = "Delete" -> RunDelete(st, cnt, body.id)
      [] body.kind = "Action" -> RunAction(st, cnt, body.id, body.action)

\* match msg { ... } of ResourceActor::run
RunMatch(st, cnt, body) ==
    CASE body.kind = "Create" -> RunCreate(st, cnt, body.payload)
      [] body.kind = "Get" -> RunGet(st, cnt, body.id)
      [] body.kind = "Update" -> RunUpdate(st, cnt, body.id, body.patch)
      [] body.kind = "Delete" -> RunDelete(st, cnt, body.id)
      [] body.kind = "Action" -> RunAction(st, cnt, body.id, body.action)

\* ------------------------------------------------------------- the order system
\* Number of client methods called in one behaviour of the order system, the
\* two calls main makes first included.
MaxOps == 5

\* The three ResourceActors of OrderSystem::new.
ActorNames == {"user", "product", "order"}

\* next_user_id, next_product_id, next_order_id: counter.fetch_add(1) formatted
\* with the actor's prefix
system_next_id(a, cnt) == [id |-> a \o "_" \o ToString(cnt), counter |-> cnt + 1]

\* struct User, struct Product, Order::new
User(id, name, email) == [id |-> id, name |-> name, email |-> email]
Product(id, name, price, quantity) ==
    [id |-> id, name |-> name, price |-> price, quantity |-> quantity]
Order(id, user_id, product_id, quantity, total) ==
    [id |-> id, user_id |-> user_id, product_id |-> product_id, quantity |-> quantity,
     total |-> total, status |-> "Created"]

\* The payloads the clients build from the structs they are handed.
UserCreate(user) == [name |-> user.name, email |-> user.email]
ProductCreate(product) ==
    [name |-> product.name, price |-> product.price, quantity |-> product.quantity]

OrderCreate(order) ==
    [user_id |-> order.user_id, product_id |-> order.product_id,
     quantity |-> order.quantity, total |-> order.total]

\* from_create of the three entities: none of them fails
UserFromCreate(id, payload) == User(id, payload.name, payload.email)
ProductFromCreate(id, payload) ==
    Product(id, payload.name, payload.price, payload.quantity)
OrderFromCreate(id, payload) ==
    [id |-> id, user_id |-> payload.user_id, product_id |-> payload.product_id,
     quantity |-> payload.quantity, total |-> payload.total, status |-> "Created"]

EntityFromCreate(a, id, payload) ==
    CASE a = "user" -> UserFromCreate(id, payload)
      [] a = "product" -> ProductFromCreate(id, payload)
      [] a = "order" -> OrderFromCreate(id, payload)

\* enum ProductAction, enum ProductActionResult
CheckStock == [op |-> "CheckStock"]
ReserveStock(amount) == [op |-> "ReserveStock", amount |-> amount]
CheckStockResult(level) == [tag |-> "CheckStock", level |-> level]
ReserveStockResult == [tag |-> "ReserveStock"]

\* format!("Insufficient stock: {} available, {} requested", ..)
InsufficientStockText(available, requested) ==
    "Insufficient stock: " \o ToString(available) \o " available, "
        \o ToString(requested) \o " requested"

\* Faulty variant: the amount is taken off without looking at the stock
ProductHandleActionUnguarded(item, action) ==
    IF action.op = "CheckStock"
    THEN [res |-> Ok(CheckStockResult(item.quantity)), item |-> item]
    ELSE [res |-> Ok(ReserveStockResult),
          item |-> [item EXCEPT !.quantity = @ - action.amount]]

\* Faulty variant: a reservation larger than the stock takes what is left
ProductHandleActionClamps(item, action) ==
    IF action.op = "CheckStock"
    THEN [res |-> Ok(CheckStockResult(item.quantity)), item |-> item]
    ELSE IF item.quantity >= action.amount
    THEN [res |-> Ok(ReserveStockResult),
          item |-> [item EXCEPT !.quantity = @ - action.amount]]
    ELSE IF item.quantity > 0
    THEN [res |-> Ok(ReserveStockResult), item |-> [item EXCEPT !.quantity = 0]]
    ELSE [res |-> Err(InsufficientStockText(item.quantity, action.amount)),
          item |-> item]

\* Product::handle_action: quantity is a u32; the subtraction runs only under
\* its guard, so it never wraps
ProductHandleAction(item, action) ==
    IF action.op = "CheckStock"
    THEN [res |-> Ok(CheckStockResult(item.quantity)), item |-> item]
    ELSE IF item.quantity >= action.amount
    THEN [res |-> Ok(ReserveStockResult),
          item |-> [item EXCEPT !.quantity = @ - action.amount]]
    ELSE [res |-> Err(InsufficientStockText(item.quantity, action.amount)),
          item |-> item]

\* handle_action of User and of Order takes () and returns Ok(())
EntityHandleAction(a, item, action) ==
    IF a = "product" THEN ProductHandleAction(item, action)
    ELSE [res |-> Ok(Unit), item |-> item]

\* struct UserPatch, struct ProductUpdate
UserPatch(name, email) == [name |-> name, email |-> email]
ProductUpdate(price, quantity) == [price |-> price, quantity |-> quantity]

\* Faulty variant: a new name is also taken as the id
UserOnUpdateRekeys(item, patch) ==
    [item EXCEPT !.id = IF patch.name.some THEN patch.name.v ELSE @,
                 !.name = IF patch.name.some THEN patch.name.v ELSE @,
                 !.email = IF patch.email.some THEN patch.email.v ELSE @]

\* User::on_update, Product::on_update: each field the patch carries is set
UserOnUpdate(item, patch) ==
    [item EXCEPT !.name = IF patch.name.some THEN patch.name.v ELSE @,
                 !.email = IF patch.email.some THEN patch.email.v ELSE @]
ProductOnUpdate(item, patch) ==
    [item EXCEPT !.price = IF patch.price.some THEN patch.price.v ELSE @,
                 !.quantity = IF patch.quantity.some THEN patch.quantity.v ELSE @]

\* on_update of the three entities: none fails, Order's takes () and does
\* nothing
EntityOnUpdate(a, item, patch) ==
    [res |-> Ok(Unit),
     item |-> CASE a = "user" -> UserOnUpdate(item, patch)
                [] a = "product" -> ProductOnUpdate(item, patch)
                [] a = "order" -> item]

\* match msg { ... } of ResourceActor::run with the hooks of actor a's entity:
\* the arms are those of the framework, the hooks never fail except
\* Product::handle_action
SystemRunMatch(a, st, cnt, body) ==
    CASE body.kind = "Create" ->
            LET g == system_next_id(a, cnt)
                built == EntityFromCreate(a, g.id, body.payload)
            IN  CreateInsert(st, g.counter, g.id, built, built)
      [] body.kind = "Get" -> CHOOSE out \in RunGet(st, cnt, body.id) : TRUE
      [] body.kind = "Update" ->
            IF body.id \in DOMAIN st
            THEN UpdatePresent(st, cnt, body.id,
                               EntityOnUpdate(a, st[body.id], body.patch))
            ELSE ReplyNotFound(st, cnt, body.id)
      [] body.kind = "Delete" ->
            IF body.id \in DOMAIN st
            THEN DeletePresent(st, cnt, body.id, Ok(Unit))
            ELSE ReplyNotFound(st, cnt, body.id)
      [] body.kind = "Action" ->
            IF body.id \in DOMAIN st
            THEN ActionPresent(st, cnt, body.id,
                               EntityHandleAction(a, st[body.id], body.action))
            ELSE ReplyNotFound(st, cnt, body.id)

\* ------------------------------------------------------------- the typed clients
\* Display of FrameworkError (thiserror)
to_string(e) ==
    CASE e.kind = "ActorClosed" -> "Actor closed"
      [] e.kind = "ActorDropped" -> "Actor dropped response channel"
      [] e.kind = "NotFound" -> "Item not found: " \o e.msg
      [] e.kind = "Custom" -> "Custom error: " \o e.msg

\* UserError, ProductError and OrderError::ActorCommunicationError(String)
ActorCommunicationError(s) == [kind |-> "ActorCommunicationError", msg |-> s]
\* OrderError::InvalidUser, InvalidProduct, InsufficientStock
InvalidUser(s) == [kind |-> "InvalidUser", msg |-> s]
InvalidProduct(s) == [kind |-> "InvalidProduct", msg |-> s]
InsufficientStock(s) == [kind |-> "InsufficientStock", msg |-> s]

\* Display of UserError and ProductError::ActorCommunicationError
display(e) == "Actor communication error: " \o e.msg

\* A u32 a client method returns.
LevelVal(n) == [level |-> n]
\* unreachable!(): the task panics
Unreachable == [ok |-> FALSE, err |-> [kind |-> "panic"]]

\* Faulty variant: the framework's error text is replaced by a fixed one
map_err_opaque(v) ==
    IF v.ok THEN v ELSE Err(ActorCommunicationError("request failed"))

\* .map_err(|e| <Error>::ActorCommunicationError(e.to_string())) of get_<entity>,
\* create_user, create_product and of the last step of create_order
map_err(v) ==
    IF v.ok THEN v ELSE Err(ActorCommunicationError(to_string(v.err)))

\* Faulty variant: check_stock reports the stock as empty whatever the reply
check_stock_result_zero(v) ==
    IF v.ok
    THEN IF v.val.tag = "CheckStock" THEN Ok(LevelVal(0)) ELSE Unreachable
    ELSE map_err(v)

\* the match of ProductClient::check_stock on the reply
check_stock_result(v) ==
    IF v.ok
    THEN IF v.val.tag = "CheckStock" THEN Ok(LevelVal(v.val.level)) ELSE Unreachable
    ELSE map_err(v)

\* the match of ProductClient::reserve_stock on the reply
reserve_stock_result(v) ==
    IF v.ok
    THEN IF v.val.tag = "ReserveStock" THEN Ok(Unit) ELSE Unreachable
    ELSE map_err(v)

\* The client methods a task of the order system may call.
create_user(user) == [name |-> "create_user", user |-> user]
create_product(product) == [name |-> "create_product", product |-> product]
get_product(id) == [name |-> "get_product", id |-> id]
update_user(id, patch) == [name |-> "update_user", id |-> id, patch |-> patch]
delete_user(id) == [name |-> "delete_user", id |-> id]
delete_product(id) == [name |-> "delete_product", id |-> id]
\* a method of the ResourceClient<T> of actor `to`, called as it is
resource_call(to, body) == [name |-> "resource_call", to |-> to, body |-> body]
check_stock(id) == [name |-> "check_stock", id |-> id]
reserve_stock(id, quantity) == [name |-> "reserve_stock", id |-> id, quantity |-> quantity]
create_order(order) == [name |-> "create_order", order |-> order]

\* What a client method does next: send a request to an actor, or return.
Continue(to, body) == [done |-> FALSE, to |-> to, body |-> body]
Finish(result) == [done |-> TRUE, result |-> result]

\* The first request of each method.
FirstRequest(op) ==
    CASE op.name = "create_user" -> Continue("user", create(UserCreate(op.user)))
      [] op.name = "create_product" ->
            Continue("product", create(ProductCreate(op.product)))
      [] op.name = "get_product" -> Continue("product", get(op.id))
      [] op.name = "check_stock" -> Continue("product", perform_action(op.id, CheckStock))
      [] op.name = "reserve_stock" ->
            Continue("product", perform_action(op.id, ReserveStock(op.quantity)))
      [] op.name = "create_order" -> Continue("user", get(op.order.user_id))
      [] op.name = "update_user" -> Continue("user", update(op.id, op.patch))
      [] op.name = "delete_user" -> Continue("user", delete(op.id))
      [] op.name = "delete_product" -> Continue("product", delete(op.id))
      [] op.name = "resource_call" -> Continue(op.to, op.body)

\* Faulty variant: the stock is reserved before the product is looked up
create_order_step_reserves_first(order, step, v) ==
    CASE step = 1 ->
            LET r == map_err(v) IN
            IF r.ok /\ r.val.some
            THEN Continue("product",
                          perform_action(order.product_id, ReserveStock(order.quantity)))
            ELSE IF r.ok THEN Finish(Err(InvalidUser(order.user_id)))
            ELSE Finish(Err(InvalidUser("User validation failed: " \o display(r.err))))
      [] step = 2 ->
            LET r == reserve_stock_result(v) IN
            IF r.ok THEN Continue("product", get(order.product_id))
            ELSE Finish(Err(InsufficientStock(
                            "Stock reservation failed: " \o display(r.err))))
      [] step = 3 ->
            LET r == map_err(v) IN
            IF r.ok /\ r.val.some THEN Continue("order", create(OrderCreate(order)))
            ELSE IF r.ok THEN Finish(Err(InvalidProduct(order.product_id)))
            ELSE Finish(Err(InvalidProduct(
                            "Product validation failed: " \o display(r.err))))
      [] step = 4 -> Finish(map_err(v))

\* Faulty variant: a user that does not exist passes the validation
create_order_step_lenient(order, step, v) ==
    CASE step = 1 ->
            LET r == map_err(v) IN
            IF r.ok THEN Continue("product", get(order.product_id))
            ELSE Finish(Err(InvalidUser("User validation failed: " \o display(r.err))))
      [] step = 2 ->
            LET r == map_err(v) IN
            IF r.ok /\ r.val.some
            THEN Continue("product",
                          perform_action(order.product_id, ReserveStock(order.quantity)))
            ELSE IF r.ok THEN Finish(Err(InvalidProduct(order.product_id)))
            ELSE Finish(Err(InvalidProduct(
                            "Product validation failed: " \o display(r.err))))
      [] step = 3 ->
            LET r == reserve_stock_result(v) IN
            IF r.ok THEN Continue("order", create(OrderCreate(order)))
            ELSE Finish(Err(InsufficientStock(
                            "Stock reservation failed: " \o display(r.err))))
      [] step = 4 -> Finish(map_err(v))

\* Faulty variant: the id of the Order the caller passed is returned, as the
\* OrderService of actors/mod.rs did
create_order_step_echoes_id(order, step, v) ==
    CASE step = 1 ->
            LET r == map_err(v) IN
            IF r.ok /\ r.val.some THEN Continue("product", get(order.product_id))
            ELSE IF r.ok THEN Finish(Err(InvalidUser(order.user_id)))
            ELSE Finish(Err(InvalidUser("User validation failed: " \o display(r.err))))
      [] step = 2 ->
            LET r == map_err(v) IN
            IF r.ok /\ r.val.some
            THEN Continue("product",
                          perform_action(order.product_id, ReserveStock(order.quantity)))
            ELSE IF r.ok THEN Finish(Err(InvalidProduct(order.product_id)))
            ELSE Finish(Err(InvalidProduct(
                            "Product validation failed: " \o display(r.err))))
      [] step = 3 ->
            LET r == reserve_stock_result(v) IN
            IF r.ok THEN Continue("order", create(OrderCreate(order)))
            ELSE Finish(Err(InsufficientStock(
                            "Stock reservation failed: " \o display(r.err))))
      [] step = 4 -> Finish(IF v.ok THEN Ok(IdVal(order.id)) ELSE map_err(v))

\* Faulty variant: when the Create fails the stock is put back by an Update
create_order_step_compensates(order, step, v) ==
    CASE step = 1 ->
            LET r == map_err(v) IN
            IF r.ok /\ r.val.some THEN Continue("product", get(order.product_id))
            ELSE IF r.ok THEN Finish(Err(InvalidUser(order.user_id)))
            ELSE Finish(Err(InvalidUser("User validation failed: " \o display(r.err))))
      [] step = 2 ->
            LET r == map_err(v) IN
            IF r.ok /\ r.val.some
            THEN Continue("product",
                          perform_action(order.product_id, ReserveStock(order.quantity)))
            ELSE IF r.ok THEN Finish(Err(InvalidProduct(order.product_id)))
            ELSE Finish(Err(InvalidProduct(
                            "Product validation failed: " \o display(r.err))))
      [] step = 3 ->
            LET r == reserve_stock_result(v) IN
            IF r.ok THEN Continue("order", create(OrderCreate(order)))
            ELSE Finish(Err(InsufficientStock(
                            "Stock reservation failed: " \o display(r.err))))
      [] step = 4 ->
            IF v.ok THEN Finish(v)
            ELSE Continue("product",
                          update(order.product_id, ProductUpdate(None, Some(10))))
      [] step = 5 -> Finish(Err(ActorCommunicationError("order not created")))

\* OrderClient::create_order from the reply to its step-th request on: step 1
\* get_user, step 2 get_product, step 3 reserve_stock, step 4 inner.create
create_order_step(order, step, v) ==
    CASE step = 1 ->
            LET r == map_err(v) IN
            IF r.ok /\ r.val.some THEN Continue("product", get(order.product_id))
            ELSE IF r.ok THEN Finish(Err(InvalidUser(order.user_id)))
            ELSE Finish(Err(InvalidUser("User validation failed: " \o display(r.err))))
      [] step = 2 ->
            LET r == map_err(v) IN
            IF r.ok /\ r.val.some
            THEN Continue("product",
                          perform_action(order.product_id, ReserveStock(order.quantity)))
            ELSE IF r.ok THEN Finish(Err(InvalidProduct(order.product_id)))
            ELSE Finish(Err(InvalidProduct(
                            "Product validation failed: " \o display(r.err))))
      [] step = 3 ->
            LET r == reserve_stock_result(v) IN
            IF r.ok THEN Continue("order", create(OrderCreate(order)))
            ELSE Finish(Err(InsufficientStock(
                            "Stock reservation failed: " \o display(r.err))))
      [] step = 4 -> Finish(map_err(v))

\* A client method from the reply to its step-th request on.
OnReply(op, step, v) ==
    CASE op.name = "create_order" -> create_order_step(op.order, step, v)
      [] op.name \in {"create_user", "create_product", "get_product",
                       "update_user", "delete_user", "delete_product"} ->
            Finish(map_err(v))
      [] op.name = "resource_call" -> Finish(v)
      [] op.name = "check_stock" -> Finish(check_stock_result(v))
      [] op.name = "reserve_stock" -> Finish(reserve_stock_result(v))

\* The user and the product main creates first.
Alice == User("", "Alice", "alice@example.com")
TestProduct == Product("temp_id", "Test Product", 100, 10)

\* What the callers of the order system ask for. Orders: the one of main
\* (an id that is none of the generator's, half of the stock), one whose id is
\* the second the generator produces and whose amount is more than half of the
\* stock, one for a user and one for a product that no Create has returned.
\* Product calls: on main's product and on a product id never returned.
Orders ==
    {Order("temp_order_id", "user_1", "product_1", 5, 50),
     Order("order_2", "user_1", "product_1", 7, 50),
     Order("temp_order_id", "user_2", "product_1", 5, 50),
     Order("temp_order_id", "user_1", "product_2", 5, 50)}

SystemOps ==
    {create_order(o) : o \in Orders}
    \cup {get_product("product_1")}
    \cup {check_stock(p) : p \in {"product_1", "product_2"}}
    \cup {reserve_stock("product_1", q) : q \in {5, 7}}
    \cup {reserve_stock("product_2", 5)}

\* ------------------------------------------------------------- state
VARIABLES
    capacity,     \* the buffer_size the actor was constructed with
    mailbox,      \* the mpsc channel's buffer: requests sent and not yet received
    store,        \* ResourceActor.store
    counter,      \* the AtomicU64 behind next_id_fn
    actor_pc,     \* "recv": at receiver.recv().await; "handling": in a match arm;
                  \* "stopped": run returned
    current,      \* the request recv returned, while its arm runs
    alive,        \* alive[t]: task t holds a ResourceClient (a Sender clone)
    pc,           \* pc[t]: "idle", "sending" (at sender.send().await, mailbox
                  \* full), "awaiting" (at response.await)
    call,         \* call[t]: the request of t's call in progress
    inbox,        \* inbox[t]: the value in the oneshot channel of t's call
    returned,     \* the call that completed last: its task, its rid, its result
    started,      \* history: started[rid] is the task that made call rid
    enq,          \* history: rids in the order they entered the mailbox
    deq,          \* history: rids in the order recv returned them
    attempts,     \* history: attempts[rid] counts the respond_to.send calls
    created,      \* history: per id a successful Create returned
    okIds,        \* history: the ids successful Creates replied, in order
    failedMints,  \* history: ids minted for a Create that failed
    drained,      \* history: recv returned a request after every client was dropped
    heard,        \* history: the caller of current still held the call when recv
                  \* returned its request
    last,         \* history: the arm that ran last
    actors,       \* OrderSystem: per actor its store, its id counter, its mailbox
                  \* and whether its task still runs
    flow,         \* OrderSystem: per task the client method it runs: the requests
                  \* it sent, the replies it got back, its result
    nops,         \* OrderSystem: number of client methods called so far
    served,       \* history: the arm an actor of the OrderSystem ran last
    granted,      \* history: per product id the sum of the amounts of the
                  \* ReserveStock actions answered with success
    clones,       \* OrderSystem: clones[t] is the set of typed clients task t
                  \* holds a clone of
    closing,      \* OrderSystem::shutdown: the clients dropped, the handles
                  \* awaited, the value returned
    services,     \* legacy OrderSystem: per service its mailbox and whether its
                  \* task still runs
    users,        \* legacy UserService.users
    user_next_id, \* legacy UserService.next_id
    orders,       \* legacy OrderService.orders
    handling,     \* legacy OrderService: the CreateOrder handle_create_order is
                  \* in, the step it awaits and the reply to it
    callers,      \* legacy: per task whether a client method of it is pending,
                  \* and the result of its last one
    shutdown,     \* legacy OrderSystem::shutdown: the Shutdown messages sent,
                  \* the handles awaited, the value returned
    lhist         \* legacy history: the services in the order they stopped, the
                  \* requests each handled, the creates answered Ok, the last
                  \* step of UserService

frameworkVars ==
    <<capacity, mailbox, store, counter, actor_pc, current, alive, pc, call, inbox, returned,
      started, enq, deq, attempts, created, okIds, failedMints, drained, heard, last>>

lifeVars == <<clones, closing>>
legacyVars == <<services, users, user_next_id, orders, handling, callers, shutdown, lhist>>
systemVars == <<actors, flow, nops, served, granted, lifeVars, legacyVars>>

vars == <<frameworkVars, systemVars>>

actorVars == <<store, counter, actor_pc, current>>
histVars == <<deq, attempts, created, okIds, failedMints, drained, heard, last>>

NoReturn == [task |-> 0, rid |-> 0, val |-> NoReply]

NoLast == [req |-> NoReq, before |-> EmptyStore, minted |-> None, deletedBefore |-> FALSE,
           heard |-> FALSE, listening |-> FALSE, out |-> Outcome(EmptyStore, 1, <<>>, <<>>, None)]

\* An actor of the order system as ResourceActor::new and tokio::spawn leave
\* it: an empty store, the counter at 1, nothing in its channel, running.
NewActor == [store |-> EmptyStore, counter |-> 1, mailbox |-> <<>>, up |-> TRUE]

NoOp == [name |-> "none"]
\* A task of the order system that has called no client method yet.
IdleFlow ==
    [op |-> NoOp, step |-> 0, phase |-> "idle", sent |-> <<>>, replies |-> <<>>,
     reply |-> NoReply, result |-> NoReply]

NoServed ==
    [actor |-> "none", task |-> 0, body |-> [kind |-> "None"], before |-> EmptyStore,
     counter |-> 0, out |-> Outcome(EmptyStore, 1, <<>>, <<>>, None)]

\* OrderSystem before shutdown is called: the system holds its three clients.
NotClosing == [dropped |-> 0, joined |-> 0, result |-> NoReply]

\* The legacy services.
LegacyServices == {"order", "user", "product"}
NewService == [up |-> TRUE, mailbox |-> <<>>]
NotHandling == [step |-> 0, order |-> NoOp, caller |-> 0, reply |-> NoReply]
NoCall == [pending |-> FALSE, result |-> NoReply]
NoStep == [msg |-> [kind |-> "None"], users |-> EmptyStore, next_id |-> 1, result |-> NoReply]

\* The legacy OrderSystem::new: UserService::new, ProductService::new and
\* OrderService::new, the three tasks spawned, no client method called yet.
LegacyNew ==
    /\ services = [s \in LegacyServices |-> NewService]
    /\ users = EmptyStore
    /\ user_next_id = 1
    /\ orders = EmptyStore
    /\ handling = NotHandling
    /\ callers = [t \in Tasks |-> NoCall]
    /\ shutdown = [sent |-> 0, joined |-> 0, result |-> NoReply]
    /\ lhist = [stopped |-> <<>>, handled |-> [s \in LegacyServices |-> 0],
                okCreates |-> 0, calls |-> 0, last |-> NoStep]

\* OrderSystem::new: three actors, no client method called yet.
SystemNew ==
    /\ actors = [a \in ActorNames |-> NewActor]
    /\ flow = [t \in Tasks |-> IdleFlow]
    /\ nops = 0
    /\ served = NoServed
    /\ granted = [id \in {} |-> 0]
    /\ clones = [t \in Tasks |-> {}]
    /\ closing = NotClosing
    /\ LegacyNew

\* ResourceActor::new: an empty store, the channel and its client; the test's
\* and OrderSystem's counters start at 1. The actor is spawned and waits in
\* recv; every task starts with its own clone of the client.
Init ==
    /\ capacity \in 1..buffer_size
    /\ SystemNew
    /\ mailbox = <<>>
    /\ store = EmptyStore
    /\ counter = 1
    /\ actor_pc = "recv"
    /\ current = NoReq
    /\ alive = [t \in Tasks |-> TRUE]
    /\ pc = [t \in Tasks |-> "idle"]
    /\ call = [t \in Tasks |-> NoReq]
    /\ inbox = [t \in Tasks |-> NoReply]
    /\ returned = NoReturn
    /\ started = <<>>
    /\ enq = <<>>
    /\ deq = <<>>
    /\ attempts = <<>>
    /\ created = [k \in {} |-> None]
    /\ okIds = <<>>
    /\ failedMints = {}
    /\ drained = FALSE
    /\ heard = FALSE
    /\ last = NoLast

\* ------------------------------------------------------------- client side
\* Faulty variant: a sender never notices that the channel is closed
ReceiverDroppedUnnoticed == FALSE

\* The receiving end is gone once the actor task has ended.
ReceiverDropped == actor_pc = "stopped"

\* Faulty variant: one request more than the capacity is let in
has_room_off_by_one(mb, cap) == Len(mb) <= cap

\* mpsc::channel(buffer_size): a send completes only while fewer than
\* buffer_size requests are buffered
has_room(mb, cap) == Len(mb) < cap

\* Faulty variant: the newest request goes to the head of the buffer
EnqueueFront(mb, req) == <<req>> \o mb

\* mpsc::Sender::send of tokio: takes a slot of the buffer when one is free
Enqueue(mb, req) == Append(mb, req)

\* drop(client): only with no call in progress, a call borrows the client
DropClient(t) ==
    /\ alive[t] /\ pc[t] = "idle"
    /\ alive' = [alive EXCEPT ![t] = FALSE]
    /\ UNCHANGED <<capacity, mailbox, pc, call, inbox, returned, started, enq>>
    /\ UNCHANGED actorVars /\ UNCHANGED histVars
    /\ UNCHANGED systemVars

\* ResourceClient::create/get/update/delete/perform_action up to the first
\* suspension: make the oneshot channel, then send. The send fails when the
\* receiver is dropped, completes when the buffer has room, suspends otherwise.
StartCall(t, body) ==
    /\ alive[t] /\ pc[t] = "idle"
    /\ Len(started) < MaxReqs
    /\ LET req == [rid |-> Len(started) + 1, task |-> t, body |-> body] IN
        /\ started' = Append(started, t)
        /\ attempts' = Append(attempts, 0)
        /\ IF ReceiverDropped
           THEN /\ returned' = [task |-> t, rid |-> req.rid, val |-> send_map_err]
                /\ UNCHANGED <<mailbox, pc, call, enq>>
           ELSE IF has_room(mailbox, capacity)
           THEN /\ mailbox' = Enqueue(mailbox, req)
                /\ enq' = Append(enq, req.rid)
                /\ pc' = [pc EXCEPT ![t] = "awaiting"]
                /\ call' = [call EXCEPT ![t] = req]
                /\ UNCHANGED returned
           ELSE /\ pc' = [pc EXCEPT ![t] = "sending"]
                /\ call' = [call EXCEPT ![t] = req]
                /\ UNCHANGED <<mailbox, enq, returned>>
    /\ UNCHANGED <<capacity, alive, inbox, deq, created, okIds, failedMints, drained, heard,
                   last>>
    /\ UNCHANGED actorVars
    /\ UNCHANGED systemVars

\* A suspended send resumes: a slot became free, or the receiver was dropped.
ResumeSend(t) ==
    /\ pc[t] = "sending"
    /\ IF ReceiverDropped
       THEN /\ returned' = [task |-> t, rid |-> call[t].rid, val |-> send_map_err]
            /\ pc' = [pc EXCEPT ![t] = "idle"]
            /\ call' = [call EXCEPT ![t] = NoReq]
            /\ UNCHANGED <<mailbox, enq>>
       ELSE /\ has_room(mailbox, capacity)
            /\ mailbox' = Enqueue(mailbox, call[t])
            /\ enq' = Append(enq, call[t].rid)
            /\ pc' = [pc EXCEPT ![t] = "awaiting"]
            /\ UNCHANGED <<returned, call>>
    /\ UNCHANGED <<capacity, alive, inbox, started>>
    /\ UNCHANGED actorVars /\ UNCHANGED histVars
    /\ UNCHANGED systemVars

\* response.await completes with the value the actor sent; the call returns it.
Return(t) ==
    /\ pc[t] = "awaiting"
    /\ inbox[t] /= NoReply
    /\ returned' = [task |-> t, rid |-> call[t].rid, val |-> response_await(inbox[t])]
    /\ inbox' = [inbox EXCEPT ![t] = NoReply]
    /\ pc' = [pc EXCEPT ![t] = "idle"]
    /\ call' = [call EXCEPT ![t] = NoReq]
    /\ UNCHANGED <<capacity, mailbox, alive, started, enq>>
    /\ UNCHANGED actorVars /\ UNCHANGED histVars
    /\ UNCHANGED systemVars

\* Faulty variant: dropping the call takes its request back out of the channel
channel_after_drop_withdraws(mb, rid) == SelectSeq(mb, LAMBDA r : r.rid /= rid)

\* The channel after a caller dropped its call: the future owns only the
\* oneshot receiver, a request already sent stays where it is.
channel_after_drop(mb, rid) == mb

\* The caller drops the call's future at one of its two suspension points:
\* a request not yet sent is never sent, the oneshot receiver is dropped.
Cancel(t) ==
    /\ pc[t] \in {"sending", "awaiting"}
    /\ pc' = [pc EXCEPT ![t] = "idle"]
    /\ call' = [call EXCEPT ![t] = NoReq]
    /\ inbox' = [inbox EXCEPT ![t] = NoReply]
    /\ mailbox' = channel_after_drop(mailbox, call[t].rid)
    /\ UNCHANGED <<capacity, alive, returned, started, enq>>
    /\ UNCHANGED actorVars /\ UNCHANGED histVars
    /\ UNCHANGED systemVars

\* ------------------------------------------------------------- actor side
\* All Sender clones are dropped.
Closed == \A t \in Tasks : ~alive[t]

\* Faulty variant: recv returns the newest buffered request
recvNewest(mb, closed) ==
    IF Len(mb) > 0
    THEN [ready |-> TRUE, msg |-> Some(mb[Len(mb)]), rest |-> SubSeq(mb, 1, Len(mb) - 1)]
    ELSE IF closed THEN [ready |-> TRUE, msg |-> None, rest |-> mb]
    ELSE [ready |-> FALSE, msg |-> None, rest |-> mb]

\* Faulty variant: recv returns None as soon as every sender is dropped
recvNoDrain(mb, closed) ==
    IF closed THEN [ready |-> TRUE, msg |-> None, rest |-> mb]
    ELSE IF Len(mb) > 0 THEN [ready |-> TRUE, msg |-> Some(Head(mb)), rest |-> Tail(mb)]
    ELSE [ready |-> FALSE, msg |-> None, rest |-> mb]

\* mpsc::Receiver::recv of tokio, as run's loop uses it: the oldest buffered
\* request when there is one; None when the buffer is empty and every sender
\* is dropped; pending otherwise.
recv(mb, closed) ==
    IF Len(mb) > 0 THEN [ready |-> TRUE, msg |-> Some(Head(mb)), rest |-> Tail(mb)]
    ELSE IF closed THEN [ready |-> TRUE, msg |-> None, rest |-> mb]
    ELSE [ready |-> FALSE, msg |-> None, rest |-> mb]

\* while let Some(msg) = self.receiver.recv().await
Recv ==
    /\ actor_pc = "recv"
    /\ LET r == recv(mailbox, Closed) IN
        /\ r.ready /\ r.msg.some
        /\ current' = r.msg.v
        /\ mailbox' = r.rest
        /\ deq' = Append(deq, r.msg.v.rid)
        /\ heard' = (pc[r.msg.v.task] = "awaiting" /\ call[r.msg.v.task].rid = r.msg.v.rid)
    /\ drained' = (drained \/ Closed)
    /\ actor_pc' = "handling"
    /\ UNCHANGED <<capacity, store, counter, alive, pc, call, inbox, returned, started, enq,
                   attempts, created, okIds, failedMints, last>>
    /\ UNCHANGED systemVars

\* recv returned None: the loop ends, run returns and drops the actor with
\* its store and its receiver.
Stop ==
    /\ actor_pc = "recv"
    /\ LET r == recv(mailbox, Closed) IN r.ready /\ ~r.msg.some
    /\ actor_pc' = "stopped"
    /\ store' = EmptyStore
    /\ mailbox' = <<>>
    /\ UNCHANGED <<capacity, counter, current, alive, pc, call, inbox, returned, started, enq>>
    /\ UNCHANGED histVars
    /\ UNCHANGED systemVars

\* The oneshot receiver of request req is still held by its caller.
Listening(req) == pc[req.task] = "awaiting" /\ call[req.task].rid = req.rid

\* history of the ids: what from_create built and what the Create stored,
\* whether a later request on the id changed the stored instance (and whether
\* that request was an Update or a Delete), whether the id was deleted
NoteCreated(cr, req, before, out) ==
    LET b == req.body IN
    IF b.kind = "Create"
    THEN IF Len(out.sends) > 0 /\ out.sends[1].ok
         THEN LET id == out.sends[1].val.id IN
              [k \in DOMAIN cr \cup {id} |->
                  IF k = id
                  THEN [built |-> out.built.v, stored |-> out.store[id],
                        changedByUpdDel |-> FALSE, changed |-> FALSE,
                        deleted |-> FALSE]
                  ELSE cr[k]]
         ELSE cr
    ELSE IF b.kind = "Get" \/ b.id \notin DOMAIN cr \/ b.id \notin DOMAIN before
    THEN cr
    ELSE LET differs == b.id \notin DOMAIN out.store \/ out.store[b.id] /= before[b.id] IN
         [cr EXCEPT ![b.id] =
            [@ EXCEPT !.changedByUpdDel = @ \/ (differs /\ b.kind \in {"Update", "Delete"}),
                      !.changed = @ \/ differs,
                      !.deleted = @ \/ b.id \notin DOMAIN out.store]]

\* Faulty variant: a hook's Err is unwrapped, an entity failure ends the task
end_of_arm_unwrap_hook(out, delivered) ==
    IF Len(out.hooks) > 0 /\ Len(out.sends) > 0 /\ ~out.sends[1].ok
    THEN "stopped" ELSE "recv"

\* Faulty variant: the result of respond_to.send is unwrapped, a reply nobody
\* listens for ends the task
end_of_arm_unwrap_send(out, delivered) == IF delivered THEN "recv" ELSE "stopped"

\* Where the loop is after an arm: every hook's Result is matched and turned
\* into a reply, the result of respond_to.send is discarded by let _, and the
\* arm ends (or continues) into the next recv.
end_of_arm(out, delivered) == "recv"

\* One match arm, from the request recv returned to the end of the loop body:
\* the hooks run, the store is changed, the reply is sent (let _ = ignores a
\* send that fails because the caller no longer listens).
Arm(g) ==
    /\ actor_pc = "handling"
    /\ \E out \in RunMatchWith(g, store, counter, current.body) :
        /\ store' = out.store
        /\ counter' = out.counter
        /\ attempts' = [attempts EXCEPT ![current.rid] = @ + Len(out.sends)]
        /\ inbox' = IF Len(out.sends) > 0 /\ Listening(current)
                    THEN [inbox EXCEPT ![current.task] = out.sends[1]]
                    ELSE inbox
        /\ created' = NoteCreated(created, current, store, out)
        /\ failedMints' =
              IF current.body.kind = "Create" /\ ~(Len(out.sends) > 0 /\ out.sends[1].ok)
              THEN failedMints \cup {g.id}
              ELSE failedMints
        /\ okIds' = IF current.body.kind = "Create" /\ Len(out.sends) > 0 /\ out.sends[1].ok
                    THEN Append(okIds, out.sends[1].val.id)
                    ELSE okIds
        /\ last' = [req |-> current, before |-> store,
                    heard |-> heard,
                    listening |-> Listening(current),
                    deletedBefore |-> /\ current.body.kind /= "Create"
                                      /\ current.body.id \in DOMAIN created
                                      /\ created[current.body.id].deleted,
                    minted |-> IF current.body.kind = "Create"
                               THEN Some(g.id) ELSE None,
                    out |-> out]
        /\ actor_pc' = end_of_arm(out, Listening(current))
    /\ current' = NoReq
    /\ heard' = FALSE
    /\ UNCHANGED <<capacity, mailbox, alive, pc, call, returned, started, enq, deq, drained>>
    /\ UNCHANGED systemVars

\* The arm with the counter of the test and of OrderSystem::new as generator.
Handle == Arm(next_id_fn(counter))

\* Faulty variant: the respond_to senders of the lost requests are leaked
drop_requests_leak(lost) == inbox

\* Dropping requests drops their respond_to senders: the oneshot channel of
\* every caller still waiting for one of them is closed.
drop_requests(lost) ==
    [t \in Tasks |->
        IF pc[t] = "awaiting" /\ call[t].rid \in lost THEN RecvError ELSE inbox[t]]

\* The actor task ends without run returning: a hook panics while an arm runs,
\* or the task is cancelled at recv().await (the runtime shuts down, or the
\* actor is dropped before it is spawned). The actor is dropped with its store
\* and its receiver; dropping the receiver closes the channel and drops the
\* requests still buffered, and with them, and with the request of the running
\* arm, their respond_to senders.
Die ==
    /\ actor_pc \in {"recv", "handling"}
    /\ inbox' = drop_requests({mailbox[i].rid : i \in 1..Len(mailbox)}
                              \cup (IF actor_pc = "handling" THEN {current.rid} ELSE {}))
    /\ actor_pc' = "stopped"
    /\ current' = NoReq
    /\ store' = EmptyStore
    /\ mailbox' = <<>>
    /\ UNCHANGED <<capacity, counter, alive, pc, call, returned, started, enq>>
    /\ UNCHANGED histVars
    /\ UNCHANGED systemVars

\* ------------------------------------------------------------- specification
Next ==
    \/ \E t \in Tasks : DropClient(t)
    \/ \E t \in Tasks, body \in Calls : StartCall(t, body)
    \/ \E t \in Tasks : ResumeSend(t)
    \/ \E t \in Tasks : Return(t)
    \/ \E t \in Tasks : Cancel(t)
    \/ Recv
    \/ Stop
    \/ Handle

Spec == Init /\ [][Next]_vars

\* The same program with an actor task that may end abnormally.
NextDeath ==
    \/ Next
    \/ Die

SpecDeath == Init /\ [][NextDeath]_vars

\* Fair scheduling: the runtime polls the actor task whenever it can take a
\* step (recv has something to return, an arm is running) and polls a caller
\* whose send or whose response.await can complete. Nothing obliges a task to
\* start a call, to drop a call or a client, or the actor to die.
Fairness ==
    /\ WF_vars(Recv)
    /\ WF_vars(Handle)
    /\ WF_vars(Stop)
    /\ \A t \in Tasks : WF_vars(ResumeSend(t)) /\ WF_vars(Return(t))

\* The calls of the fair specification: one whose arm runs hooks and may take
\* any of three paths to its reply, and one whose arm only reads the store.
FairCalls ==
    {create(p) : p \in CreatePayloads}
    \cup {get(i) : i \in TargetIds}

NextFair ==
    \/ \E t \in Tasks : DropClient(t)
    \/ \E t \in Tasks, body \in FairCalls : StartCall(t, body)
    \/ \E t \in Tasks : ResumeSend(t)
    \/ \E t \in Tasks : Return(t)
    \/ \E t \in Tasks : Cancel(t)
    \/ Recv
    \/ Stop
    \/ Handle
    \/ Die

SpecFair == Init /\ [][NextFair]_vars /\ Fairness

\* ------------------------------------------------------------- any generator
\* ResourceActor::new takes any `impl Fn() -> T::Id` as next_id_fn: nothing
\* obliges it to return a fresh id. The ids such a generator returns here: the
\* one callers name and one more.
GeneratorIds == TargetIds \cup {"user_0"}

\* The calls of the specification with any generator: Create, Get, and the
\* Action that makes a stored instance differ from a newly built one.
GeneratorCalls ==
    {create(p) : p \in CreatePayloads}
    \cup {get(i) : i \in TargetIds}
    \cup {perform_action(i, a) : i \in TargetIds, a \in Actions}

\* One match arm with a generator that returns any of GeneratorIds.
HandleAnyGenerator ==
    \E i \in GeneratorIds : Arm([id |-> i, counter |-> counter + 1])

NextAnyGenerator ==
    \/ \E t \in Tasks : DropClient(t)
    \/ \E t \in Tasks, body \in GeneratorCalls : StartCall(t, body)
    \/ \E t \in Tasks : ResumeSend(t)
    \/ \E t \in Tasks : Return(t)
    \/ \E t \in Tasks : Cancel(t)
    \/ Recv
    \/ Stop
    \/ HandleAnyGenerator

SpecAnyGenerator == Init /\ [][NextAnyGenerator]_vars

\* ------------------------------------------------------------- the order system runs
\* ResourceClient's send towards actor `to`: the request enters the actor's
\* channel (32 slots, never full with NumTasks callers) unless the receiver is
\* dropped.
SystemSend(acts, t, to, body) ==
    IF acts[to].up
    THEN [acts EXCEPT ![to].mailbox = Append(@, [task |-> t, body |-> body])]
    ELSE acts

\* Task t calls client method op: the method sends its first request.
CallMethod(t, op) ==
    LET first == FirstRequest(op) IN
    /\ flow[t].phase \in {"idle", "done"}
    /\ nops < MaxOps
    /\ nops' = nops + 1
    /\ actors' = SystemSend(actors, t, first.to, first.body)
    /\ flow' = [flow EXCEPT ![t] =
            [op |-> op, step |-> 1, phase |-> "awaiting",
             sent |-> <<[to |-> first.to, body |-> first.body]>>, replies |-> <<>>,
             reply |-> IF actors[first.to].up THEN NoReply ELSE send_map_err,
             result |-> NoReply]]
    /\ UNCHANGED <<served, granted>>
    /\ UNCHANGED <<frameworkVars, lifeVars, legacyVars>>

\* main: create_user, then create_product, each followed by `?`, before
\* anything else is asked of the system.
Setup ==
    \/ /\ nops = 0
       /\ CallMethod(1, create_user(Alice))
    \/ /\ nops = 1
       /\ flow[1].phase = "done" /\ flow[1].result.ok
       /\ CallMethod(1, create_product(TestProduct))

\* After main's two calls succeeded, any task calls any method.
Begin(t, op) ==
    /\ nops >= 2
    /\ nops = 2 => flow[1].phase = "done" /\ flow[1].result.ok
    /\ CallMethod(t, op)

\* The reply to task t's request arrived: the method goes on from its await,
\* to its next request or to its return.
Advance(t) ==
    /\ flow[t].phase = "awaiting"
    /\ flow[t].reply /= NoReply
    /\ LET v == response_await(flow[t].reply)
           r == OnReply(flow[t].op, flow[t].step, v)
       IN  IF r.done
           THEN /\ flow' = [flow EXCEPT ![t] =
                        [@ EXCEPT !.phase = "done", !.replies = Append(@, v),
                                  !.reply = NoReply, !.result = r.result]]
                /\ UNCHANGED actors
           ELSE /\ flow' = [flow EXCEPT ![t] =
                        [@ EXCEPT !.step = @ + 1, !.replies = Append(@, v),
                                  !.sent = Append(@, [to |-> r.to, body |-> r.body]),
                                  !.reply = IF actors[r.to].up THEN NoReply
                                            ELSE send_map_err]]
                /\ actors' = SystemSend(actors, t, r.to, r.body)
    /\ UNCHANGED <<nops, served, granted>>
    /\ UNCHANGED <<frameworkVars, lifeVars, legacyVars>>

\* history of the reservations: the amount of a ReserveStock the product actor
\* answered with success is added to the total of its product
NoteGranted(gr, a, body, out) ==
    IF /\ a = "product" /\ body.kind = "Action"
       /\ body.action.op = "ReserveStock" /\ out.sends[1].ok
    THEN [k \in DOMAIN gr \cup {body.id} |->
            (IF k \in DOMAIN gr THEN gr[k] ELSE 0)
            + (IF k = body.id THEN body.action.amount ELSE 0)]
    ELSE gr

\* Actor a takes the oldest request of its channel and runs its arm.
Serve(a) ==
    /\ actors[a].up
    /\ Len(actors[a].mailbox) > 0
    /\ LET req == Head(actors[a].mailbox)
           out == SystemRunMatch(a, actors[a].store, actors[a].counter, req.body)
       IN  /\ actors' = [actors EXCEPT ![a] =
                    [@ EXCEPT !.store = out.store, !.counter = out.counter,
                              !.mailbox = Tail(@)]]
           /\ flow' = IF flow[req.task].phase = "awaiting"
                      THEN [flow EXCEPT ![req.task].reply = out.sends[1]]
                      ELSE flow
           /\ served' = [actor |-> a, task |-> req.task, body |-> req.body,
                         before |-> actors[a].store, counter |-> actors[a].counter,
                         out |-> out]
           /\ granted' = NoteGranted(granted, a, req.body, out)
    /\ UNCHANGED nops
    /\ UNCHANGED <<frameworkVars, lifeVars, legacyVars>>

\* Actor a's task ends abnormally: its store and its receiver are dropped, and
\* with the buffered requests their respond_to senders.
Kill(a) ==
    /\ actors[a].up
    /\ actors' = [actors EXCEPT ![a] =
            [@ EXCEPT !.up = FALSE, !.store = EmptyStore, !.mailbox = <<>>]]
    /\ flow' = [t \in Tasks |->
            IF /\ flow[t].phase = "awaiting"
               /\ \E i \in 1..Len(actors[a].mailbox) : actors[a].mailbox[i].task = t
            THEN [flow[t] EXCEPT !.reply = RecvError]
            ELSE flow[t]]
    /\ UNCHANGED <<nops, served, granted>>
    /\ UNCHANGED <<frameworkVars, lifeVars, legacyVars>>

\* The caller drops the future of its client method at the await it is
\* suspended in: nothing more is sent, a request already sent stays in its
\* actor's channel. (A task that dropped a call calls nothing afterwards.)
Abandon(t) ==
    /\ flow[t].phase = "awaiting"
    /\ nops > 2
    /\ flow' = [flow EXCEPT ![t] = [@ EXCEPT !.phase = "dropped", !.reply = NoReply]]
    /\ UNCHANGED <<actors, nops, served, granted>>
    /\ UNCHANGED <<frameworkVars, lifeVars, legacyVars>>

InitSystem ==
    /\ Init
    /\ capacity = buffer_size

NextSystem ==
    \/ Setup
    \/ \E t \in Tasks, op \in SystemOps : Begin(t, op)
    \/ \E t \in Tasks : Advance(t)
    \/ \E a \in ActorNames : Serve(a)
    \/ \E a \in ActorNames : Kill(a)

SpecSystem == InitSystem /\ [][NextSystem]_vars

\* The order workflow with callers that may give up: the orders of the
\* system, and check_stock to look at what they left.
WorkflowOps ==
    {create_order(o) : o \in Orders}
    \cup {check_stock("product_1")}

NextWorkflow ==
    \/ Setup
    \/ \E t \in Tasks, op \in WorkflowOps : Begin(t, op)
    \/ \E t \in Tasks : Advance(t)
    \/ \E t \in Tasks : Abandon(t)
    \/ \E a \in ActorNames : Serve(a)
    \/ \E a \in ActorNames : Kill(a)

SpecWorkflow == InitSystem /\ [][NextWorkflow]_vars

\* The three stores under every kind of request: updates, deletes and actions
\* on the instances main and create_order put there, and on ids never stored.
EntityOps ==
    {create_order(Order("temp_order_id", "user_1", "product_1", 5, 50)),
     create_user(Alice),
     update_user("user_1", UserPatch(Some("Bob"), None)),
     update_user("user_2", UserPatch(None, Some("bob@example.com"))),
     delete_user("user_1"),
     delete_product("product_2"),
     reserve_stock("product_1", 5),
     resource_call("product", update("product_1", ProductUpdate(None, Some(3)))),
     resource_call("order", update("order_1", Unit)),
     resource_call("order", perform_action("order_1", Unit)),
     resource_call("user", perform_action("user_1", Unit))}

NextEntities ==
    \/ Setup
    \/ \E t \in Tasks, op \in EntityOps : Begin(t, op)
    \/ \E t \in Tasks : Advance(t)
    \/ \E a \in ActorNames : Serve(a)
    \/ \E a \in ActorNames : Kill(a)

SpecEntities == InitSystem /\ [][NextEntities]_vars

\* ------------------------------------------------------------- the order system shuts down
\* requests sent through clones in one behaviour of the shutdown
MaxSends == 2

\* OrderClient, UserClient, ProductClient
ClientKinds == {"order", "user", "product"}

\* The actors a typed client holds a Sender of: an OrderClient holds its own
\* ResourceClient and a clone of the user and of the product client.
Reaches(c) == IF c = "order" THEN {"order", "user", "product"} ELSE {c}

\* The clients the OrderSystem still holds after n of the drops of shutdown:
\* order_client goes first, then user_client, then product_client.
SystemHolds(n) ==
    CASE n = 0 -> {"order", "user", "product"}
      [] n = 1 -> {"user", "product"}
      [] n = 2 -> {"product"}
      [] OTHER -> {}

\* The handles in the order shutdown awaits them.
handles == <<"user", "product", "order">>

LiveClients == SystemHolds(closing.dropped) \cup UNION {clones[t] : t \in Tasks}

\* Some Sender of actor a's channel exists.
SenderAlive(a) == \E c \in LiveClients : a \in Reaches(c)

\* Task t clones a client: from the system before shutdown took it, or from a
\* clone another task holds.
CloneClient(t, c) ==
    /\ c \notin clones[t]
    /\ \/ closing.dropped = 0
       \/ \E u \in Tasks : c \in clones[u]
    /\ clones' = [clones EXCEPT ![t] = @ \cup {c}]
    /\ UNCHANGED <<actors, flow, nops, served, granted, closing>>
    /\ UNCHANGED <<frameworkVars, legacyVars>>

DropClone(t, c) ==
    /\ c \in clones[t]
    /\ clones' = [clones EXCEPT ![t] = @ \ {c}]
    /\ UNCHANGED <<actors, flow, nops, served, granted, closing>>
    /\ UNCHANGED <<frameworkVars, legacyVars>>

\* Task t sends a Get through a clone it holds and does not wait for the
\* answer; the send goes through when the channel has room.
SendThrough(t, a) ==
    /\ \E c \in clones[t] : a \in Reaches(c)
    /\ actors[a].up
    /\ Len(actors[a].mailbox) < buffer_size
    /\ nops < MaxSends
    /\ nops' = nops + 1
    /\ actors' = SystemSend(actors, t, a, get(system_next_id(a, 1)))
    /\ UNCHANGED <<flow, served, granted, lifeVars>>
    /\ UNCHANGED <<frameworkVars, legacyVars>>

\* Faulty variant: recv returns None as soon as the channel is empty
recv_none_on_empty(a) == Len(actors[a].mailbox) = 0

\* receiver.recv() returns None: every Sender is dropped and nothing is left
\* in the channel
recv_none(a) ==
    /\ Len(actors[a].mailbox) = 0
    /\ ~SenderAlive(a)

\* `while let Some(msg) = self.receiver.recv().await` ends: run returns, the
\* task finishes.
ActorExit(a) ==
    /\ actors[a].up
    /\ recv_none(a)
    /\ actors' = [actors EXCEPT ![a] = [@ EXCEPT !.up = FALSE, !.store = EmptyStore]]
    /\ UNCHANGED <<flow, nops, served, granted, lifeVars>>
    /\ UNCHANGED <<frameworkVars, legacyVars>>

\* OrderSystem::shutdown, one drop(...) at a time
ShutdownDrop ==
    /\ closing.dropped < 3
    /\ closing' = [closing EXCEPT !.dropped = @ + 1]
    /\ UNCHANGED <<actors, flow, nops, served, granted, clones>>
    /\ UNCHANGED <<frameworkVars, legacyVars>>

\* handle.await of the next handle returns once its task has finished
ShutdownJoin ==
    /\ closing.dropped = 3
    /\ closing.joined < 3
    /\ ~actors[handles[closing.joined + 1]].up
    /\ closing' = [closing EXCEPT !.joined = @ + 1]
    /\ UNCHANGED <<actors, flow, nops, served, granted, clones>>
    /\ UNCHANGED <<frameworkVars, legacyVars>>

ShutdownReturn ==
    /\ closing.joined = 3
    /\ closing.result = NoReply
    /\ closing' = [closing EXCEPT !.result = Ok(Unit)]
    /\ UNCHANGED <<actors, flow, nops, served, granted, clones>>
    /\ UNCHANGED <<frameworkVars, legacyVars>>

NextClosing ==
    \/ \E t \in Tasks, c \in ClientKinds : CloneClient(t, c)
    \/ \E t \in Tasks, c \in ClientKinds : DropClone(t, c)
    \/ \E t \in Tasks, a \in ActorNames : SendThrough(t, a)
    \/ \E a \in ActorNames : Serve(a)
    \/ \E a \in ActorNames : ActorExit(a)
    \/ ShutdownDrop
    \/ ShutdownJoin
    \/ ShutdownReturn

\* The actor tasks and the task in shutdown are tokio tasks: one that can
\* take its next step is scheduled.
ClosingFairness ==
    /\ \A a \in ActorNames : WF_vars(Serve(a)) /\ WF_vars(ActorExit(a))
    /\ WF_vars(ShutdownDrop) /\ WF_vars(ShutdownJoin) /\ WF_vars(ShutdownReturn)

SpecClosing == InitSystem /\ [][NextClosing]_vars /\ ClosingFairness

\* ------------------------------------------------------------- the legacy services
\* client methods called by the tasks in one behaviour of the legacy system
MaxLegacyCalls == 3

\* User::new and Order::new of the legacy module
LegacyUser(name, email) == [id |-> "", name |-> name, email |-> email]
LegacyOrder(id, user_id, product_id, quantity, total) ==
    [id |-> id, user_id |-> user_id, product_id |-> product_id, quantity |-> quantity,
     total |-> total]

\* ProductService.products and ProductService.stock: created empty, and no
\* message puts anything into them
products == [k \in {} |-> None]
stock == [k \in {} |-> 0]

\* The String a legacy client method returns as its error
Text(s) == [text |-> s]

\* The SendError and the oneshot RecvError a client method turns into text
channel_closed == Text("channel closed")

ValidationError(s) == [kind |-> "ValidationError", msg |-> s]
LegacyInsufficientStock(requested, available) ==
    [kind |-> "InsufficientStock", requested |-> requested, available |-> available]

\* impl Display for UserError, ProductError and the legacy OrderError
UserErrorDisplay(e) ==
    CASE e.kind = "NotFound" -> "User not found: " \o e.msg
      [] e.kind = "ValidationError" -> "User validation error: " \o e.msg
ProductErrorDisplay(e) ==
    CASE e.kind = "NotFound" -> "Product not found: " \o e.msg
      [] e.kind = "InsufficientStock" ->
            "Insufficient stock: requested " \o ToString(e.requested)
            \o ", available " \o ToString(e.available)
OrderErrorDisplay(e) ==
    CASE e.kind = "InvalidProduct" -> "Invalid product: " \o e.msg
      [] e.kind = "InvalidUser" -> "Invalid user: " \o e.msg
      [] e.kind = "InsufficientStock" -> "Insufficient stock: " \o e.msg

\* client_method!: what the method returns for the value the service sent:
\* result.map_err(|e| e.to_string())
client_result(s, v) ==
    IF v.ok THEN v
    ELSE Err(Text(CASE s = "user" -> UserErrorDisplay(v.err)
                    [] s = "product" -> ProductErrorDisplay(v.err)
                    [] s = "order" -> OrderErrorDisplay(v.err)))

\* The messages; from is the task whose client method sent it, 0 for the
\* OrderService, -1 for a Shutdown, which nobody waits for.
GetUser(from, id) == [from |-> from, kind |-> "GetUser", id |-> id]
CreateUser(from, user) == [from |-> from, kind |-> "CreateUser", user |-> user]
UpdateUser(from, id, user) == [from |-> from, kind |-> "UpdateUser", id |-> id, user |-> user]
ListUsers(from) == [from |-> from, kind |-> "ListUsers"]
GetUserCount(from) == [from |-> from, kind |-> "GetUserCount"]
GetProduct(from, id) == [from |-> from, kind |-> "GetProduct", id |-> id]
LegacyCheckStock(from, id) == [from |-> from, kind |-> "CheckStock", id |-> id]
LegacyReserveStock(from, id, quantity) ==
    [from |-> from, kind |-> "ReserveStock", id |-> id, quantity |-> quantity]
CreateOrder(from, order) == [from |-> from, kind |-> "CreateOrder", order |-> order]
GetOrder(from, id) == [from |-> from, kind |-> "GetOrder", id |-> id]
Shutdown == [from |-> -1, kind |-> "Shutdown"]

\* Faulty variant: the id is taken before the email is looked at
UserHandleMintsFirst(msg, us, nid) ==
    CASE msg.kind = "GetUser" ->
            [users |-> us, next_id |-> nid,
             result |-> Ok(IF msg.id \in DOMAIN us THEN Some(us[msg.id]) ELSE None)]
      [] msg.kind = "CreateUser" ->
            IF msg.user.email = ""
            THEN [users |-> us, next_id |-> nid + 1,
                  result |-> Err(ValidationError("Email required"))]
            ELSE [users |-> Insert(us, "user_" \o ToString(nid), msg.user),
                  next_id |-> nid + 1,
                  result |-> Ok(IdVal("user_" \o ToString(nid)))]
      [] msg.kind = "UpdateUser" ->
            IF msg.id \in DOMAIN us
            THEN [users |-> Insert(us, msg.id, msg.user), next_id |-> nid,
                  result |-> Ok(Unit)]
            ELSE [users |-> us, next_id |-> nid, result |-> Err(NotFound(msg.id))]
      [] msg.kind = "ListUsers" ->
            [users |-> us, next_id |-> nid,
             result |-> Ok([list |-> {us[k] : k \in DOMAIN us}])]
      [] msg.kind = "GetUserCount" ->
            [users |-> us, next_id |-> nid,
             result |-> Ok([count |-> Cardinality(DOMAIN us)])]

\* The arms of UserService::run but Shutdown: handle_get_user,
\* handle_create_user, handle_update_user, handle_list_users and the test's
\* GetUserCount, on the users us and the next_id nid
UserHandle(msg, us, nid) ==
    CASE msg.kind = "GetUser" ->
            [users |-> us, next_id |-> nid,
             result |-> Ok(IF msg.id \in DOMAIN us THEN Some(us[msg.id]) ELSE None)]
      [] msg.kind = "CreateUser" ->
            IF msg.user.email = ""
            THEN [users |-> us, next_id |-> nid,
                  result |-> Err(ValidationError("Email required"))]
            ELSE [users |-> Insert(us, "user_" \o ToString(nid), msg.user),
                  next_id |-> nid + 1,
                  result |-> Ok(IdVal("user_" \o ToString(nid)))]
      [] msg.kind = "UpdateUser" ->
            IF msg.id \in DOMAIN us
            THEN [users |-> Insert(us, msg.id, msg.user), next_id |-> nid,
                  result |-> Ok(Unit)]
            ELSE [users |-> us, next_id |-> nid, result |-> Err(NotFound(msg.id))]
      [] msg.kind = "ListUsers" ->
            [users |-> us, next_id |-> nid,
             result |-> Ok([list |-> {us[k] : k \in DOMAIN us}])]
      [] msg.kind = "GetUserCount" ->
            [users |-> us, next_id |-> nid,
             result |-> Ok([count |-> Cardinality(DOMAIN us)])]

\* The arms of ProductService::run but Shutdown: handle_get_product,
\* handle_check_stock, handle_reserve_stock. With nothing in stock the
\* decrement of handle_reserve_stock is never reached.
ProductHandle(msg) ==
    CASE msg.kind = "GetProduct" ->
            Ok(IF msg.id \in DOMAIN products THEN Some(products[msg.id]) ELSE None)
      [] msg.kind = "CheckStock" ->
            Ok([level |-> IF msg.id \in DOMAIN stock THEN stock[msg.id] ELSE 0])
      [] msg.kind = "ReserveStock" ->
            IF msg.id \in DOMAIN stock
            THEN IF stock[msg.id] >= msg.quantity THEN Ok(Unit)
                 ELSE Err(LegacyInsufficientStock(msg.quantity, stock[msg.id]))
            ELSE Err(NotFound(msg.id))

\* OrderService::handle_create_order from the result v of its step-th call
\* of a sub-service on: step 1 get_user, step 2 get_product, step 3
\* reserve_stock; then the order is stored under the id the caller gave it
handle_create_order(order, step, v) ==
    CASE step = 1 ->
            IF v.ok /\ v.val.some THEN Continue("product", GetProduct(0, order.product_id))
            ELSE IF v.ok THEN Finish(Err([kind |-> "InvalidUser", msg |-> order.user_id]))
            ELSE Finish(Err([kind |-> "InvalidUser",
                             msg |-> "User validation failed: " \o v.err.text]))
      [] step = 2 ->
            IF v.ok /\ v.val.some
            THEN Continue("product",
                          LegacyReserveStock(0, order.product_id, order.quantity))
            ELSE IF v.ok
            THEN Finish(Err([kind |-> "InvalidProduct", msg |-> order.product_id]))
            ELSE Finish(Err([kind |-> "InvalidProduct",
                             msg |-> "Product validation failed: " \o v.err.text]))
      [] step = 3 ->
            IF v.ok THEN Finish(Ok(IdVal(order.id)))
            ELSE Finish(Err([kind |-> "InsufficientStock",
                             msg |-> "Stock reservation failed: " \o v.err.text]))

\* What the tasks ask of the legacy system.
LegacyCalls ==
    {[to |-> "user", msg |-> CreateUser(0, LegacyUser("Alice", "alice@example.com"))],
     [to |-> "user", msg |-> CreateUser(0, LegacyUser("Nobody", ""))],
     [to |-> "user", msg |-> UpdateUser(0, "user_1", LegacyUser("Bob", "bob@example.com"))],
     [to |-> "user", msg |-> GetUserCount(0)],
     [to |-> "product", msg |-> GetProduct(0, "p1")],
     [to |-> "order", msg |-> CreateOrder(0, LegacyOrder("order_1", "user_1", "p1", 5, 50))]}

newSystemVars == <<actors, flow, nops, served, granted>>

\* The value v reaches the caller c of a request: a task's client method
\* returns it, the OrderService's call of a sub-service returns it.
CallersAfter(cs, c, v) ==
    IF c \in Tasks THEN [cs EXCEPT ![c] = [pending |-> FALSE, result |-> v]] ELSE cs
HandlingAfter(h, c, v) == IF c = 0 THEN [h EXCEPT !.reply = v] ELSE h

\* A service's receiver is dropped with the messages mb still in the channel:
\* their respond_to go with them, the callers' response.await fails.
RECURSIVE CallersAfterDrop(_, _)
CallersAfterDrop(cs, mb) ==
    IF mb = <<>> THEN cs
    ELSE CallersAfterDrop(CallersAfter(cs, Head(mb).from, Err(channel_closed)), Tail(mb))
HandlingAfterDrop(h, mb) ==
    IF \E i \in 1..Len(mb) : mb[i].from = 0 THEN [h EXCEPT !.reply = Err(channel_closed)]
    ELSE h

\* sender.send(msg).await: the message enters the channel of a running service
LegacySend(svs, to, msg) ==
    IF svs[to].up THEN [svs EXCEPT ![to].mailbox = Append(@, msg)] ELSE svs

\* Task t calls a client method: the send fails at once when the service's
\* receiver is gone.
LegacyCall(t, c) ==
    /\ ~callers[t].pending
    /\ lhist.calls < MaxLegacyCalls
    /\ services' = LegacySend(services, c.to, [c.msg EXCEPT !.from = t])
    /\ callers' = [callers EXCEPT ![t] =
            IF services[c.to].up THEN [pending |-> TRUE, result |-> NoReply]
            ELSE [pending |-> FALSE, result |-> Err(channel_closed)]]
    /\ lhist' = [lhist EXCEPT !.calls = @ + 1]
    /\ UNCHANGED <<users, user_next_id, orders, handling, shutdown>>
    /\ UNCHANGED <<frameworkVars, newSystemVars, lifeVars>>

\* Faulty variant: the channel outlives the service, with what is left in it
StoppedKeepsChannel(s) ==
    /\ services' = [services EXCEPT ![s] =
            [up |-> FALSE, mailbox |-> Tail(services[s].mailbox)]]
    /\ callers' = callers
    /\ handling' = handling
    /\ lhist' = [lhist EXCEPT !.stopped = Append(@, s)]

\* Service s leaves its loop on Shutdown: run returns and the service is
\* dropped, with its receiver and what is left in the channel.
Stopped(s) ==
    /\ services' = [services EXCEPT ![s] = [up |-> FALSE, mailbox |-> <<>>]]
    /\ callers' = CallersAfterDrop(callers, Tail(services[s].mailbox))
    /\ handling' = HandlingAfterDrop(handling, Tail(services[s].mailbox))
    /\ lhist' = [lhist EXCEPT !.stopped = Append(@, s)]

\* UserService::run: one message
UserStep ==
    /\ services["user"].up
    /\ Len(services["user"].mailbox) > 0
    /\ LET msg == Head(services["user"].mailbox)
           h == UserHandle(msg, users, user_next_id)
       IN  IF msg.kind = "Shutdown"
           THEN /\ Stopped("user")
                /\ users' = EmptyStore
                /\ UNCHANGED user_next_id
           ELSE /\ users' = h.users
                /\ user_next_id' = h.next_id
                /\ services' = [services EXCEPT !["user"].mailbox = Tail(@)]
                /\ callers' = CallersAfter(callers, msg.from, client_result("user", h.result))
                /\ handling' = HandlingAfter(handling, msg.from,
                                             client_result("user", h.result))
                /\ lhist' = [lhist EXCEPT
                        !.handled["user"] = @ + 1,
                        !.okCreates = IF msg.kind = "CreateUser" /\ h.result.ok
                                      THEN @ + 1 ELSE @,
                        !.last = [msg |-> msg, users |-> users,
                                  next_id |-> user_next_id, result |-> h.result]]
    /\ UNCHANGED <<orders, shutdown>>
    /\ UNCHANGED <<frameworkVars, newSystemVars, lifeVars>>

\* ProductService::run: one message
ProductStep ==
    /\ services["product"].up
    /\ Len(services["product"].mailbox) > 0
    /\ LET msg == Head(services["product"].mailbox) IN
       IF msg.kind = "Shutdown"
       THEN Stopped("product")
       ELSE /\ services' = [services EXCEPT !["product"].mailbox = Tail(@)]
            /\ callers' = CallersAfter(callers, msg.from,
                                       client_result("product", ProductHandle(msg)))
            /\ handling' = HandlingAfter(handling, msg.from,
                                         client_result("product", ProductHandle(msg)))
            /\ lhist' = [lhist EXCEPT !.handled["product"] = @ + 1]
    /\ UNCHANGED <<users, user_next_id, orders, shutdown>>
    /\ UNCHANGED <<frameworkVars, newSystemVars, lifeVars>>

\* OrderService::run: one message; a CreateOrder goes as far as the first
\* call of a sub-service, handle_get_order answers at once
OrderStep ==
    /\ services["order"].up
    /\ handling.step = 0
    /\ Len(services["order"].mailbox) > 0
    /\ LET msg == Head(services["order"].mailbox) IN
       CASE msg.kind = "Shutdown" ->
                /\ Stopped("order")
                /\ orders' = EmptyStore
         [] msg.kind = "GetOrder" ->
                /\ services' = [services EXCEPT !["order"].mailbox = Tail(@)]
                /\ callers' = CallersAfter(callers, msg.from,
                        Ok(IF msg.id \in DOMAIN orders THEN Some(orders[msg.id]) ELSE None))
                /\ lhist' = [lhist EXCEPT !.handled["order"] = @ + 1]
                /\ UNCHANGED <<orders, handling>>
         [] msg.kind = "CreateOrder" ->
                /\ services' = LegacySend(
                        [services EXCEPT !["order"].mailbox = Tail(@)],
                        "user", GetUser(0, msg.order.user_id))
                /\ handling' = [step |-> 1, order |-> msg.order, caller |-> msg.from,
                                reply |-> IF services["user"].up THEN NoReply
                                          ELSE Err(channel_closed)]
                /\ lhist' = [lhist EXCEPT !.handled["order"] = @ + 1]
                /\ UNCHANGED <<orders, callers>>
    /\ UNCHANGED <<users, user_next_id, shutdown>>
    /\ UNCHANGED <<frameworkVars, newSystemVars, lifeVars>>

\* handle_create_order goes on from the await it is in: to its next call of
\* a sub-service, or to its answer
OrderResume ==
    /\ handling.step > 0
    /\ handling.reply /= NoReply
    /\ LET r == handle_create_order(handling.order, handling.step, handling.reply) IN
       IF r.done
       THEN /\ orders' = IF r.result.ok
                         THEN Insert(orders, handling.order.id, handling.order)
                         ELSE orders
            /\ callers' = CallersAfter(callers, handling.caller,
                                       client_result("order", r.result))
            /\ handling' = NotHandling
            /\ UNCHANGED services
       ELSE /\ services' = LegacySend(services, r.to, r.body)
            /\ handling' = [handling EXCEPT
                    !.step = @ + 1,
                    !.reply = IF services[r.to].up THEN NoReply ELSE Err(channel_closed)]
            /\ UNCHANGED <<orders, callers>>
    /\ UNCHANGED <<users, user_next_id, shutdown, lhist>>
    /\ UNCHANGED <<frameworkVars, newSystemVars, lifeVars>>

\* The services in the order OrderSystem::shutdown sends them Shutdown, and
\* in the order it awaits their handles.
shutdown_order == <<"order", "user", "product">>
legacy_handles == <<"user", "product", "order">>

\* OrderSystem::shutdown: `let _ = client.shutdown().await` returns when the
\* Shutdown is in the channel, or at once when the receiver is gone
ShutdownSend ==
    /\ shutdown.sent < 3
    /\ services' = LegacySend(services, shutdown_order[shutdown.sent + 1], Shutdown)
    /\ shutdown' = [shutdown EXCEPT !.sent = @ + 1]
    /\ UNCHANGED <<users, user_next_id, orders, handling, callers, lhist>>
    /\ UNCHANGED <<frameworkVars, newSystemVars, lifeVars>>

\* handle.await of the next handle returns once its task has finished
LegacyJoin ==
    /\ shutdown.sent = 3
    /\ shutdown.joined < 3
    /\ ~services[legacy_handles[shutdown.joined + 1]].up
    /\ shutdown' = [shutdown EXCEPT !.joined = @ + 1]
    /\ UNCHANGED <<services, users, user_next_id, orders, handling, callers, lhist>>
    /\ UNCHANGED <<frameworkVars, newSystemVars, lifeVars>>

LegacyReturn ==
    /\ shutdown.joined = 3
    /\ shutdown.result = NoReply
    /\ shutdown' = [shutdown EXCEPT !.result = Ok(Unit)]
    /\ UNCHANGED <<services, users, user_next_id, orders, handling, callers, lhist>>
    /\ UNCHANGED <<frameworkVars, newSystemVars, lifeVars>>

NextLegacy ==
    \/ \E t \in Tasks, c \in LegacyCalls : LegacyCall(t, c)
    \/ UserStep
    \/ ProductStep
    \/ OrderStep
    \/ OrderResume
    \/ ShutdownSend
    \/ LegacyJoin
    \/ LegacyReturn

SpecLegacy == InitSystem /\ [][NextLegacy]_vars

\* The three services and the task in shutdown are tokio tasks: one that can
\* take its next step is scheduled.
LegacyFairness ==
    /\ WF_vars(UserStep) /\ WF_vars(ProductStep)
    /\ WF_vars(OrderStep) /\ WF_vars(OrderResume)
    /\ WF_vars(shutdown.sent > 0 /\ ShutdownSend)
    /\ WF_vars(LegacyJoin) /\ WF_vars(LegacyReturn)

SpecLegacyFair == SpecLegacy /\ LegacyFairness

\* ------------------------------------------------------------- properties
Range(q) == {q[i] : i \in 1..Len(q)}

\* The arm that ran last, its request and the reply it sent.
LastKind == last.req.body.kind
LastReplied == Len(last.out.sends) > 0
LastReply == last.out.sends[1]
LastFailedCreate == LastKind = "Create" /\ LastReplied /\ ~LastReply.ok

\* C1: every request recv has returned got exactly one respond_to.send, on
\* whatever path its arm took, by the time the actor is back at recv; the
\* request whose arm is running has got none yet, and no request ever gets two.
C1_ExactlyOneReply ==
    \A i \in 1..Len(deq) :
        attempts[deq[i]] = IF actor_pc = "handling" /\ i = Len(deq) THEN 0 ELSE 1

\* Requests answered on a hook-failure path and on a NotFound path are both
\* behind the actor, which is back at recv.
C1_Witness ==
    /\ actor_pc = "recv"
    /\ Len(deq) >= 2
    /\ LastReplied /\ ~LastReply.ok /\ LastReply.err.kind = "Custom"
    /\ \E r \in Range(deq) : r /= last.req.rid /\ attempts[r] = 1

\* C2 as stated: a Get on an id that a Create returned is answered with the
\* instance from_create built, as long as no Update or Delete changed it.
C2_Original ==
    (/\ LastKind = "Get"
     /\ last.req.body.id \in DOMAIN created
     /\ ~created[last.req.body.id].changedByUpdDel)
    => LastReply = Ok(Some(created[last.req.body.id].built))

\* C2 amended: a Get on an id that a Create returned is answered with the
\* instance that Create stored, as long as no Update, Delete or Action on the
\* id changed it.
C2_CreateThenGet ==
    (/\ LastKind = "Get"
     /\ last.req.body.id \in DOMAIN created
     /\ ~created[last.req.body.id].changed)
    => /\ LastReplied
       /\ LastReply = Ok(Some(created[last.req.body.id].stored))

\* A Get on a created, unchanged id was answered as the third request or later.
C2_Witness ==
    /\ LastKind = "Get"
    /\ last.req.body.id \in DOMAIN created
    /\ ~created[last.req.body.id].changed
    /\ Len(deq) >= 3

\* C3: a Create whose from_create or on_create failed replied that failure
\* and left the store as it was, without the minted id; a Get on an id minted
\* for a failed Create is answered Ok(None).
C3_FailedCreateNoTrace ==
    /\ LastFailedCreate =>
        /\ LastReply.err.kind = "Custom"
        /\ last.out.store = last.before
        /\ last.minted.v \notin DOMAIN last.out.store
    /\ (LastKind = "Get" /\ last.req.body.id \in failedMints) =>
        /\ LastReplied
        /\ LastReply = Ok(None)

\* A Get on the id of a failed Create was answered.
C3_Witness ==
    /\ LastKind = "Get"
    /\ last.req.body.id \in failedMints

\* C4: the ids that successful Creates replied are pairwise distinct, and a
\* successful Create added exactly its id to the keys of the store.
C4_Uniqueness ==
    /\ \A i \in 1..Len(okIds), j \in 1..Len(okIds) : i /= j => okIds[i] /= okIds[j]
    /\ (LastKind = "Create" /\ LastReplied /\ LastReply.ok) =>
        /\ LastReply.val.id \notin DOMAIN last.before
        /\ DOMAIN last.out.store = DOMAIN last.before \cup {LastReply.val.id}

\* Two Creates have succeeded.
C4_Witness ==
    /\ Len(okIds) >= 2
    /\ LastKind = "Create" /\ LastReplied /\ LastReply.ok

\* C5: an Update, Delete or Action on an id that is no key of the store is
\* answered NotFound(id), calls no hook and leaves the store as it was.
C5_NotFoundCoverage ==
    (/\ LastKind \in {"Update", "Delete", "Action"}
     /\ last.req.body.id \notin DOMAIN last.before)
    => /\ LastReplied
       /\ LastReply = Err(NotFound(last.req.body.id))
       /\ last.out.hooks = <<>>
       /\ last.out.store = last.before

\* An Update or an Action on an id that was created and then deleted was
\* answered.
C5_Witness ==
    /\ LastKind \in {"Update", "Action"}
    /\ last.req.body.id \notin DOMAIN last.before
    /\ last.deletedBefore

\* C6: once a Delete on an id succeeded, a Get on that id is answered Ok(None)
\* and a Delete on it is answered NotFound(id).
C6_DeleteNotIdempotent ==
    last.deletedBefore =>
        /\ LastKind = "Get" => LastReplied /\ LastReply = Ok(None)
        /\ LastKind = "Delete" =>
              LastReplied /\ LastReply = Err(NotFound(last.req.body.id))

\* A second Delete on a deleted id was answered.
C6_Witness ==
    /\ last.deletedBefore
    /\ LastKind = "Delete"

\* C7: a Get is answered Ok(Some(the stored instance)) when its id is a key of
\* the store and Ok(None) when it is not, and never with an error.
C7_GetNeverFails ==
    LastKind = "Get" =>
        /\ LastReplied
        /\ LastReply.ok
        /\ LastReply = IF last.req.body.id \in DOMAIN last.before
                       THEN Ok(Some(last.before[last.req.body.id]))
                       ELSE Ok(None)
        /\ last.out.store = last.before

\* A Get on a key of the store was answered while the store held an instance
\* that an Update or an Action had changed.
C7_Witness ==
    /\ LastKind = "Get"
    /\ last.req.body.id \in DOMAIN last.before
    /\ created[last.req.body.id].changed

\* C8: requests leave the mailbox in the order they entered it; at most one
\* dequeued request is unanswered, the one whose arm is running; the store is
\* what the arm that ran last left.
C8_SequentialFIFO ==
    /\ Len(deq) <= Len(enq)
    /\ \A i \in 1..Len(deq) : deq[i] = enq[i]
    /\ actor_pc /= "stopped" =>
          [i \in 1..Len(mailbox) |-> mailbox[i].rid] = SubSeq(enq, Len(deq) + 1, Len(enq))
    /\ {r \in Range(deq) : attempts[r] = 0}
          = IF actor_pc = "handling" THEN {current.rid} ELSE {}
    /\ LET n == IF actor_pc = "handling" THEN Len(deq) - 1 ELSE Len(deq) IN
          last.req.rid = IF n = 0 THEN 0 ELSE deq[n]
    /\ actor_pc /= "stopped" => store = last.out.store

\* Requests of different tasks were dequeued one after the other and a third
\* request is in its arm.
C8_Witness ==
    /\ actor_pc = "handling"
    /\ Len(deq) = 3
    /\ started[deq[1]] /= started[deq[2]]

\* C9: when a request is dequeued, every request its task sent before it that
\* entered the mailbox was dequeued before it and has been answered.
C9_PerCallerOrder ==
    \A j \in 1..Len(deq) : \A r0 \in Range(enq) :
        (r0 < deq[j] /\ started[r0] = started[deq[j]]) =>
            /\ \E i \in 1..(j - 1) : deq[i] = r0
            /\ attempts[r0] = 1

\* Two requests of one task were dequeued with a request of the other task
\* between them.
C9_Witness ==
    /\ Len(deq) = 3
    /\ started[deq[1]] = started[deq[3]]
    /\ started[deq[2]] /= started[deq[1]]

\* C10 as stated: once every client is dropped the actor dequeues nothing more.
C10_Original == ~drained

\* C10 amended: the loop ends only when every client is dropped and the
\* mailbox is empty; every request that entered the mailbox has then been
\* dequeued and answered.
C10_DrainThenStop ==
    actor_pc = "stopped" =>
        /\ Closed
        /\ deq = enq
        /\ \A r \in Range(enq) : attempts[r] = 1

\* The actor stopped after it dequeued a request that was still buffered when
\* the last client was dropped.
C10_Witness ==
    /\ actor_pc = "stopped"
    /\ drained

\* C11 as stated: a call returns Err(ActorDropped) only when its request was
\* dequeued and the actor ended before replying to it.
C11_Original ==
    returned.val = Err(ActorDropped) =>
        /\ actor_pc = "stopped"
        /\ returned.rid \in Range(deq)
        /\ attempts[returned.rid] = 0

\* C11 amended: a call returns Err(ActorDropped) only when its request had
\* entered the mailbox, dequeued or still buffered, and the actor ended before
\* replying to it; a request that never entered the mailbox never produces
\* ActorDropped.
C11_DroppedOnlyOnDeath ==
    returned.val = Err(ActorDropped) =>
        /\ actor_pc = "stopped"
        /\ returned.rid \in Range(enq)
        /\ attempts[returned.rid] = 0

\* A call whose request was in its arm when the actor ended returned
\* Err(ActorDropped).
C11_Witness ==
    /\ returned.val = Err(ActorDropped)
    /\ returned.rid \in Range(deq)

\* C12: once the receiver is dropped no request enters the mailbox or reaches a
\* store; a call started then returns Err(ActorClosed) at once, and a send that
\* was suspended on a full mailbox ends with Err(ActorClosed) unless its caller
\* dropped it.
C12_ClosedAfterStop ==
    [][actor_pc = "stopped" =>
        /\ mailbox' = mailbox /\ enq' = enq /\ deq' = deq /\ store' = store
        /\ Len(started') > Len(started) =>
              returned' = [task |-> started'[Len(started')], rid |-> Len(started'),
                           val |-> Err(ActorClosed)]
        /\ \A t \in Tasks :
              (pc[t] = "sending" /\ pc'[t] /= "sending") =>
                  /\ pc'[t] = "idle"
                  /\ \/ returned' = returned
                     \/ returned' = [task |-> t, rid |-> call[t].rid,
                                     val |-> Err(ActorClosed)]]_vars

\* A call on a client that outlived the actor returned Err(ActorClosed) and
\* its request is in no mailbox.
C12_Witness ==
    /\ actor_pc = "stopped"
    /\ ~Closed
    /\ returned.val = Err(ActorClosed)
    /\ returned.rid \notin Range(enq)
    /\ Len(enq) >= capacity

\* C13: under fair scheduling every call in progress ends: a caller suspended in
\* send or waiting at response.await is eventually back with a value or an
\* error.
C13_EveryCallCompletes ==
    \A t \in Tasks : (pc[t] /= "idle") ~> (pc[t] = "idle")

\* With a mailbox of capacity 1 shared by two callers, every call that was
\* started went through the mailbox and the last of them has returned.
C13_Witness ==
    /\ capacity = 1
    /\ Len(started) = MaxReqs /\ Len(deq) = MaxReqs
    /\ \E r \in 1..MaxReqs : started[r] /= started[1]
    /\ \A t \in Tasks : pc[t] = "idle"
    /\ returned.rid = deq[MaxReqs]

\* C14: the mailbox never buffers more requests than the capacity the actor was
\* constructed with, so at most that many sends have completed beyond what the
\* actor has dequeued, and the request of a suspended send is in no mailbox;
\* with capacity 1 and nothing dequeued yet at most one send has completed.
C14_Backpressure ==
    /\ Len(mailbox) <= capacity
    /\ Len(enq) <= Len(deq) + capacity
    /\ \A t \in Tasks :
          pc[t] = "sending" =>
              /\ call[t].rid \notin Range(enq)
              /\ \A i \in 1..Len(mailbox) : mailbox[i].rid /= call[t].rid
    /\ (capacity = 1 /\ deq = <<>>) => Len(enq) <= 1

\* Capacity 1, the actor has dequeued nothing, one request is buffered and
\* every task is suspended in a send.
C14_Witness ==
    /\ capacity = 1
    /\ deq = <<>>
    /\ Len(mailbox) = 1
    /\ \A t \in Tasks : pc[t] = "sending"

\* The arm that ran last called a hook and the hook returned an error.
LastHookFailed ==
    /\ Len(last.out.hooks) > 0
    /\ LastReplied /\ ~LastReply.ok

\* C15: after an arm whose hook returned an error the actor is at recv again
\* or already in the next arm, with the next buffered request ready to be
\* received; whatever failed before, the loop has ended only if every client
\* is dropped and every request that entered the mailbox was dequeued.
C15_HookFailureKeepsRunning ==
    /\ LastHookFailed =>
          /\ LastReply.err.kind = "Custom"
          /\ actor_pc = "stopped" => (Closed /\ deq = enq)
          /\ (actor_pc = "recv" /\ Len(mailbox) > 0) =>
                 /\ recv(mailbox, Closed).ready
                 /\ recv(mailbox, Closed).msg = Some(Head(mailbox))
          /\ actor_pc = "handling" =>
                 /\ current.rid = deq[Len(deq)]
                 /\ store = last.out.store
                 /\ RunMatch(store, counter, current.body) /= {}
    /\ actor_pc = "stopped" => Closed

\* A Create was answered Ok after an earlier Create had failed in a hook.
C15_Witness ==
    /\ failedMints /= {}
    /\ LastKind = "Create" /\ LastReplied /\ LastReply.ok
    /\ actor_pc = "recv"

\* The counter of the id generator before the arm that ran last.
LastCounterBefore ==
    IF LastKind = "Create" THEN last.out.counter - 1 ELSE last.out.counter

\* C16: an arm whose caller had dropped the call before the reply was sent did
\* to the store and replied what the match does for that request on that
\* store, sent its one reply, delivered it to nobody, and left the actor
\* running on what it stored.
C16_CancelledCallerSameEffect ==
    (last.req /= NoReq /\ ~last.listening) =>
        /\ last.out \in RunMatch(last.before, LastCounterBefore, last.req.body)
        /\ attempts[last.req.rid] = 1
        /\ actor_pc /= "stopped" => (store = last.out.store /\ counter = last.out.counter)
        /\ actor_pc = "stopped" => Closed
        /\ returned.rid /= last.req.rid

\* A Create whose caller dropped the call between recv and the reply stored
\* its instance, and the actor is in the arm of the next request.
C16_Witness ==
    /\ last.heard /\ ~last.listening
    /\ LastKind = "Create" /\ LastReplied /\ LastReply.ok
    /\ actor_pc = "handling"

\* The arm that ran last was of the given kind and found its id in the store.
LastOnPresent(kind) ==
    /\ LastKind = kind
    /\ last.req.body.id \in DOMAIN last.before

\* The arm that ran last left every entry other than its target as it was.
LastLeftOthers ==
    \A k \in DOMAIN last.before \ {last.req.body.id} :
        k \in DOMAIN last.out.store /\ last.out.store[k] = last.before[k]

\* The actor is in the arm of a Get on the id of the arm that ran last.
GetIsNext ==
    /\ actor_pc = "handling"
    /\ current.body = get(last.req.body.id)

\* C17: an Update on a present id whose on_update succeeded replied the
\* instance with the patch applied, the store holds that same instance under
\* the id and nothing else changed; a Get on the id processed next replies it.
C17_UpdateRepliesStored ==
    (LastOnPresent("Update") /\ LastReplied /\ LastReply.ok) =>
        LET id == last.req.body.id IN
        /\ LastReply.val = SimpleUserOnUpdate(last.before[id], last.req.body.patch)
        /\ DOMAIN last.out.store = DOMAIN last.before
        /\ last.out.store[id] = LastReply.val
        /\ LastLeftOthers
        /\ GetIsNext =>
              \A o \in RunMatch(store, counter, current.body) :
                  o.sends = <<Ok(Some(LastReply.val))>>

\* An Update that changed the name was answered Ok and a Get on its id is in
\* its arm.
C17_Witness ==
    /\ LastOnPresent("Update") /\ LastReplied /\ LastReply.ok
    /\ LastReply.val /= last.before[last.req.body.id]
    /\ GetIsNext

\* C18: an Update on a present id whose on_update returned an error replied
\* that error, and the store holds the instance exactly as the hook left it,
\* changed or not; a Get on the id processed next replies that instance.
C18_NoRollback ==
    (LastOnPresent("Update") /\ LastReplied /\ ~LastReply.ok) =>
        LET id == last.req.body.id IN
        /\ last.out.hooks = <<"on_update">>
        /\ DOMAIN last.out.store = DOMAIN last.before
        /\ last.out.built.some /\ last.out.store[id] = last.out.built.v
        /\ \E ou \in on_update(last.before[id], last.req.body.patch) :
              /\ ~ou.res.ok
              /\ ou.item = last.out.store[id]
              /\ LastReply = Err(Custom(ou.res.err))
        /\ LastLeftOthers
        /\ GetIsNext =>
              \A o \in RunMatch(store, counter, current.body) :
                  o.sends = <<Ok(Some(last.out.built.v))>>

\* on_update changed the instance and then failed, and a Get on the id is in
\* its arm.
C18_Witness ==
    /\ LastOnPresent("Update") /\ LastReplied /\ ~LastReply.ok
    /\ last.out.built.v /= last.before[last.req.body.id]
    /\ GetIsNext

\* C19: a Delete on a present id asked on_delete; when on_delete returned an
\* error the reply is that error and the store is as it was, and when it
\* succeeded the reply is Ok and exactly the entry of the id is gone.
C19_FailedDeleteKeeps ==
    (LastOnPresent("Delete") /\ LastReplied) =>
        /\ last.out.hooks = <<"on_delete">>
        /\ ~LastReply.ok =>
              /\ \E od \in on_delete(last.before[last.req.body.id]) :
                    ~od.ok /\ LastReply = Err(Custom(od.err))
              /\ last.out.store = last.before
        /\ LastReply.ok =>
              /\ LastReply = Ok(Unit)
              /\ last.out.store = Remove(last.before, last.req.body.id)

\* on_delete failed for an instance that an earlier request had changed, and
\* the instance is still in the store.
C19_Witness ==
    /\ LastOnPresent("Delete") /\ LastReplied /\ ~LastReply.ok
    /\ created[last.req.body.id].changed
    /\ actor_pc = "recv"
    /\ last.req.body.id \in DOMAIN store

\* C20: an Action on a present id left the keys of the store and every other
\* entry as they were; the entry of the id is the instance as handle_action
\* left it and the reply is the result handle_action returned with it (an
\* error wrapped in Custom).
C20_ActionTouchesOnlyTarget ==
    LastOnPresent("Action") =>
        LET id == last.req.body.id IN
        /\ LastReplied
        /\ last.out.hooks = <<"handle_action">>
        /\ DOMAIN last.out.store = DOMAIN last.before
        /\ LastLeftOthers
        /\ \E ha \in handle_action(last.before[id], last.req.body.action) :
              /\ last.out.store[id] = ha.item
              /\ LastReply = IF ha.res.ok THEN ha.res ELSE Err(Custom(ha.res.err))

\* handle_action changed its instance and then failed while the store held a
\* second instance.
C20_Witness ==
    /\ LastOnPresent("Action") /\ LastReplied /\ ~LastReply.ok
    /\ last.out.store[last.req.body.id] /= last.before[last.req.body.id]
    /\ Cardinality(DOMAIN last.before) >= 2

\* C21: the reply of an arm whose hook returned an error is Err(Custom(s)) with
\* s the very string that hook returned, a Custom reply is always a hook's
\* error, and the caller of that request gets that reply.
C21_HookErrorIsCustom ==
    /\ LastHookFailed =>
          /\ LastReply = Err(Custom(HookError(last.out.hooks[Len(last.out.hooks)])))
          /\ (returned.rid = last.req.rid) => returned.val = LastReply
    /\ (LastReplied /\ ~LastReply.ok /\ LastReply.err.kind = "Custom") =>
          Len(last.out.hooks) > 0
    /\ (~returned.val.ok /\ returned.val.err.kind = "Custom") =>
          returned.val.err.msg \in HookErrors

\* The caller of a Create whose from_create failed has returned with the
\* hook's error.
C21_Witness ==
    /\ LastHookFailed
    /\ last.out.hooks = <<"from_create">>
    /\ returned.rid = last.req.rid
    /\ returned.val = Err(Custom(HookError("from_create")))

\* C22: the value a call returns is the value the actor sent on that request's
\* reply channel, success or failure, unchanged; a reply waiting in a caller's
\* channel for the request of the last arm is that arm's reply.
C22_ClientPassThrough ==
    /\ (returned.rid /= 0 /\ returned.rid = last.req.rid) =>
          /\ LastReplied
          /\ returned.val = LastReply
    /\ \A t \in Tasks :
          (pc[t] = "awaiting" /\ call[t].rid = last.req.rid /\ inbox[t] /= NoReply) =>
              inbox[t] = LastReply

\* An Update on an absent id was answered NotFound and its caller returned
\* that answer.
C22_Witness ==
    /\ returned.rid /= 0 /\ returned.rid = last.req.rid
    /\ LastKind = "Update"
    /\ returned.val = Err(NotFound(last.req.body.id))

\* C29: the store starts empty; a successful Create adds exactly the minted
\* id to its keys, a successful Delete removes exactly its target, and every
\* other arm (Get, Update, Action, a failed Create, a failed Delete, any
\* NotFound) leaves the keys as they were.
C29_KeySetFrame ==
    /\ deq = <<>> => store = EmptyStore
    /\ last.req /= NoReq =>
          DOMAIN last.out.store =
            IF LastKind = "Create" /\ LastReplied /\ LastReply.ok
            THEN DOMAIN last.before \cup {last.minted.v}
            ELSE IF LastKind = "Delete" /\ LastReplied /\ LastReply.ok
            THEN DOMAIN last.before \ {last.req.body.id}
            ELSE DOMAIN last.before
    /\ (LastKind = "Create" /\ LastReplied /\ LastReply.ok) =>
          last.minted.v \notin DOMAIN last.before
    /\ (LastKind = "Delete" /\ LastReplied /\ LastReply.ok) =>
          last.req.body.id \in DOMAIN last.before
    /\ actor_pc /= "stopped" => DOMAIN store = DOMAIN last.out.store

\* A Delete succeeded on a store of two entries and left the other one.
C29_Witness ==
    /\ LastKind = "Delete" /\ LastReplied /\ LastReply.ok
    /\ Cardinality(DOMAIN last.before) = 2
    /\ Cardinality(DOMAIN last.out.store) = 1

\* C30: the generator has been invoked once per Create the actor ran, failed
\* or not, and for nothing else: the counter stands one past the number of
\* Creates, the k-th Create was given the id numbered k, and an id minted for
\* a failed Create is never replied by a later Create nor a key of the store.
C30_OneMintPerCreate ==
    LET creates == Len(okIds) + Cardinality(failedMints) IN
    /\ counter = creates + 1
    /\ LastKind = "Create" =>
          /\ last.minted = Some(next_id(creates))
          /\ last.out.counter = creates + 1
    /\ \A k \in 1..Len(okIds) : okIds[k] \in {next_id(n) : n \in 1..creates}
    /\ failedMints \subseteq {next_id(n) : n \in 1..creates}
    /\ failedMints \cap Range(okIds) = {}
    /\ failedMints \cap DOMAIN store = {}

\* A Create succeeded after a failed one and was given the id numbered 2,
\* and other requests ran after it.
C30_Witness ==
    /\ failedMints = {next_id(1)}
    /\ okIds = <<next_id(2)>>
    /\ LastKind /= "Create"
    /\ Len(deq) = 3

\* ------------------------------------------------------------- properties of the order system
\* The arm an actor of the order system ran last and the reply it sent.
ServedReply == served.out.sends[1]
ServedOnProduct(kind) ==
    /\ served.actor = "product"
    /\ served.body.kind = kind
    /\ served.body.id \in DOMAIN served.before

\* The tasks whose current or last client method is `name`.
Running(name) == {t \in Tasks : flow[t].op.name = name}
Finished(name) == {t \in Running(name) : flow[t].phase = "done"}

\* C23: a ReserveStock(n) arm on a product with quantity q replies success and
\* leaves q - n when q >= n, replies the insufficient-stock error and leaves q
\* when q < n; no stored quantity is ever negative; Get and CheckStock reply
\* the stored quantity and change nothing, and the store the next arm finds is
\* the one this arm left.
C23_StockReservation ==
    /\ \A id \in DOMAIN actors["product"].store :
          actors["product"].store[id].quantity >= 0
    /\ (served.actor = "product" /\ actors["product"].up)
          => actors["product"].store = served.out.store
    /\ (ServedOnProduct("Action") /\ served.body.action.op = "ReserveStock") =>
          LET id == served.body.id
              q == served.before[id].quantity
              n == served.body.action.amount
          IN  IF q >= n
              THEN /\ ServedReply = Ok(ReserveStockResult)
                   /\ served.out.store[id].quantity = q - n
              ELSE /\ ServedReply = Err(Custom(InsufficientStockText(q, n)))
                   /\ served.out.store[id].quantity = q
    /\ (ServedOnProduct("Action") /\ served.body.action.op = "CheckStock") =>
          /\ ServedReply = Ok(CheckStockResult(served.before[served.body.id].quantity))
          /\ served.out.store = served.before
    /\ ServedOnProduct("Get") =>
          /\ ServedReply = Ok(Some(served.before[served.body.id]))
          /\ served.out.store = served.before

\* Of a stock of 10, 5 were reserved, a reservation of 7 was then refused, and
\* CheckStock has just reported 5.
C23_Witness ==
    /\ served.actor = "product"
    /\ served.body = perform_action("product_1", CheckStock)
    /\ ServedReply = Ok(CheckStockResult(5))
    /\ \E t \in Finished("reserve_stock") :
          /\ flow[t].op = reserve_stock("product_1", 7)
          /\ flow[t].replies[1] =
                Err(Custom("Insufficient stock: 5 available, 7 requested"))

\* The four requests of create_order for an order, in the order it sends them.
WorkflowRequests(order) ==
    << [to |-> "user", body |-> get(order.user_id)],
       [to |-> "product", body |-> get(order.product_id)],
       [to |-> "product",
        body |-> perform_action(order.product_id, ReserveStock(order.quantity))],
       [to |-> "order",
        body |-> create([user_id |-> order.user_id, product_id |-> order.product_id,
                         quantity |-> order.quantity, total |-> order.total])] >>

\* The reply to the i-th request of create_order lets the workflow go on.
StepSucceeded(f, i) ==
    /\ Len(f.replies) >= i
    /\ f.replies[i].ok
    /\ i <= 2 => f.replies[i].val.some

\* C24: what create_order has sent so far is a prefix of: Get to the user
\* actor, Get to the product actor, Action ReserveStock(quantity) to the
\* product actor, Create to the order actor; each request but the first was sent
\* only after the one before it was answered with success; a successful result
\* is the reply of the order actor to the Create.
C24_WorkflowSequence ==
    \A t \in Running("create_order") :
        LET f == flow[t] IN
        /\ Len(f.sent) \in 1..4
        /\ f.sent = SubSeq(WorkflowRequests(f.op.order), 1, Len(f.sent))
        /\ Len(f.replies) \in {Len(f.sent) - 1, Len(f.sent)}
        /\ \A i \in 1..(Len(f.sent) - 1) : StepSucceeded(f, i)
        /\ (f.phase = "done" /\ f.result.ok) =>
              /\ Len(f.sent) = 4
              /\ f.result = f.replies[4]
              /\ "id" \in DOMAIN f.result.val

\* A create_order went through its four requests and returned the id the
\* order actor replied.
C24_Witness ==
    \E t \in Finished("create_order") :
        /\ flow[t].result.ok
        /\ Len(flow[t].sent) = 4
        /\ served.actor = "order" /\ served.task = t
        /\ flow[t].result = ServedReply

\* The orders the order actor stores and the stock they took.
StoredOrders == {actors["order"].store[k] : k \in DOMAIN actors["order"].store}
RECURSIVE SumQuantity(_)
SumQuantity(os) ==
    IF os = {} THEN 0
    ELSE LET o == CHOOSE x \in os : TRUE IN o.quantity + SumQuantity(os \ {o})

\* C25: a create_order whose user Get was answered None or an error has
\* returned InvalidUser and sent nothing else; one whose product Get was answered
\* None or an error has returned InvalidProduct having sent only the two Gets;
\* one whose reservation failed has returned InsufficientStock and sent no
\* Create. So every stored order names a user and a product that exist, and
\* the stored orders never hold more stock than was taken off the product.
C25_StopsAtFirstFailure ==
    /\ \A t \in Running("create_order") :
          LET f == flow[t] IN
          \A i \in 1..Len(f.replies) :
              (i <= 3 /\ ~StepSucceeded(f, i)) =>
                  /\ f.phase = "done"
                  /\ ~f.result.ok
                  /\ f.result.err.kind =
                        <<"InvalidUser", "InvalidProduct", "InsufficientStock">>[i]
                  /\ Len(f.sent) = i
                  /\ \A j \in 1..Len(f.sent) : f.sent[j].body.kind /= "Create"
    /\ \A o \in StoredOrders : o.user_id = "user_1" /\ o.product_id = "product_1"
    /\ ("product_1" \in DOMAIN actors["product"].store) =>
          SumQuantity(StoredOrders)
              <= TestProduct.quantity - actors["product"].store["product_1"].quantity

\* One create_order was refused for a user that does not exist, another for
\* lack of stock, and the order actor has been asked nothing.
C25_Witness ==
    /\ \E t \in Finished("create_order") :
          /\ flow[t].replies[1] = Ok(None)
          /\ flow[t].result = Err(InvalidUser("user_2"))
    /\ \E t \in Finished("create_order") :
          /\ Len(flow[t].replies) = 3
          /\ flow[t].replies[3].err.kind = "Custom"
          /\ flow[t].result.err.kind = "InsufficientStock"
    /\ actors["order"].counter = 1
    /\ actors["order"].store = EmptyStore

\* C26: check_stock(id) and reserve_stock(id, n) send one request, an Action
\* to the product actor with that id and CheckStock, respectively
\* ReserveStock(n), and no other; check_stock returns the level of the
\* CheckStock result it was answered, reserve_stock returns Ok(()) when it was
\* answered the ReserveStock result.
C26_TypedProductActions ==
    /\ \A t \in Running("check_stock") :
          LET f == flow[t] IN
          /\ f.sent = <<[to |-> "product", body |-> perform_action(f.op.id, CheckStock)]>>
          /\ (f.phase = "done" /\ f.replies[1].ok) =>
                /\ f.replies[1].val.tag = "CheckStock"
                /\ f.result = Ok(LevelVal(f.replies[1].val.level))
    /\ \A t \in Running("reserve_stock") :
          LET f == flow[t] IN
          /\ f.sent = <<[to |-> "product",
                         body |-> perform_action(f.op.id, ReserveStock(f.op.quantity))]>>
          /\ (f.phase = "done" /\ f.replies[1].ok) =>
                /\ f.replies[1] = Ok(ReserveStockResult)
                /\ f.result = Ok(Unit)

\* check_stock has returned the stock that a successful reserve_stock of
\* another task left.
C26_Witness ==
    /\ \E t \in Finished("check_stock") :
          /\ flow[t].result = Ok(LevelVal(5))
          /\ served.task = t /\ served.body = perform_action("product_1", CheckStock)
    /\ \E t \in Finished("reserve_stock") :
          /\ flow[t].op = reserve_stock("product_1", 5)
          /\ flow[t].result = Ok(Unit)

\* The text of a FrameworkError as the product client's message has to show it.
ErrorText(e) ==
    CASE e.kind = "ActorClosed" -> "Actor closed"
      [] e.kind = "ActorDropped" -> "Actor dropped response channel"
      [] e.kind = "NotFound" -> "Item not found: " \o e.msg
      [] e.kind = "Custom" -> "Custom error: " \o e.msg

\* C27: a check_stock or reserve_stock that was answered an error (Custom,
\* NotFound, ActorClosed, ActorDropped) returns ActorCommunicationError with
\* the error's text, the entity's or the id's string included; it returns Ok
\* only for an Ok reply.
C27_ProductErrorMapping ==
    \A t \in Finished("check_stock") \cup Finished("reserve_stock") :
        LET f == flow[t] IN
        /\ f.replies[1].ok = f.result.ok
        /\ ~f.replies[1].ok =>
              /\ f.replies[1].err.kind \in
                    {"Custom", "NotFound", "ActorClosed", "ActorDropped"}
              /\ f.result = Err([kind |-> "ActorCommunicationError",
                                 msg |-> ErrorText(f.replies[1].err)])

\* One reserve_stock was refused for lack of stock and the caller got the
\* text of the refusal; another call was answered NotFound.
C27_Witness ==
    /\ \E t \in Finished("reserve_stock") :
          flow[t].result =
              Err([kind |-> "ActorCommunicationError",
                   msg |-> "Custom error: Insufficient stock: 5 available, 7 requested"])
    /\ \E t \in Finished("check_stock") \cup Finished("reserve_stock") :
          /\ flow[t].replies[1] = Err(NotFound("product_2"))
          /\ flow[t].result =
                Err([kind |-> "ActorCommunicationError",
                     msg |-> "Item not found: product_2"])

\* The id an actor's generator produces from counter value n.
Generated(a, n) == a \o "_" \o ToString(n)

\* C28: a Create arm stores the new entity under the id its generator produced
\* for this request, replies that id, and the entity's own id field is that
\* id; every key of every store is an id its actor generated; a successful
\* create_order returns the order actor's reply, whatever id the Order it was
\* handed carried.
C28_ActorChoosesIds ==
    /\ served.body.kind = "Create" =>
          LET id == Generated(served.actor, served.counter) IN
          /\ ServedReply = Ok(IdVal(id))
          /\ DOMAIN served.out.store = DOMAIN served.before \cup {id}
          /\ id \notin DOMAIN served.before
          /\ served.out.store[id].id = id
    /\ \A a \in ActorNames :
          \A k \in DOMAIN actors[a].store :
              /\ k \in {Generated(a, n) : n \in 1..(actors[a].counter - 1)}
              /\ actors[a].store[k].id = k
    /\ \A t \in Finished("create_order") :
          flow[t].result.ok =>
              /\ flow[t].result = flow[t].replies[4]
              /\ flow[t].result.val.id
                    \in {Generated("order", n) : n \in 1..(actors["order"].counter - 1)}

\* An order handed over with the id "order_2" was stored under, and returned
\* as, the first id of the generator.
C28_Witness ==
    \E t \in Finished("create_order") :
        /\ flow[t].op.order.id = "order_2"
        /\ flow[t].result = Ok(IdVal("order_1"))
        /\ "order_1" \in DOMAIN actors["order"].store
        /\ "order_2" \notin DOMAIN actors["order"].store

\* ------------------------------------------------------------- later properties of the actor
\* C31: an arm of PromoteToAdmin that replied true left its instance stored
\* with is_admin set; a stored instance with is_admin set keeps it for as long
\* as it is stored, whatever requests follow; a Get replies the stored instance
\* and a PromoteToAdmin on an instance with is_admin set, if it succeeds,
\* replies false.
C31_ActionMutationsPersist ==
    /\ [](/\ (LastOnPresent("Action") /\ LastReplied /\ LastReply = Ok(BoolVal(TRUE))
              /\ last.req.body.action = PromoteToAdmin)
                => last.out.store[last.req.body.id].is_admin
          /\ (LastOnPresent("Get") /\ last.before[last.req.body.id].is_admin)
                => (LastReply.ok /\ LastReply.val.some /\ LastReply.val.v.is_admin)
          /\ (LastOnPresent("Action") /\ last.before[last.req.body.id].is_admin
              /\ last.req.body.action = PromoteToAdmin /\ LastReplied /\ LastReply.ok)
                => LastReply = Ok(BoolVal(FALSE))
          /\ (last.req /= NoReq /\ actor_pc /= "stopped") => store = last.out.store)
    /\ [][\A id \in DOMAIN store :
            (store[id].is_admin /\ id \in DOMAIN store') => store'[id].is_admin]_vars

\* A second PromoteToAdmin on the same id was answered false.
C31_Witness ==
    /\ LastOnPresent("Action")
    /\ last.req.body.action = PromoteToAdmin
    /\ last.before[last.req.body.id].is_admin
    /\ LastReply = Ok(BoolVal(FALSE))

\* C39: a request in the mailbox leaves it only by being received, whatever
\* its caller does meanwhile, and the loop ends only after everything that
\* entered the mailbox was received; the arm of a request whose caller had
\* dropped the call before recv returned it does what the match does for that
\* request; a Create among them stores its instance under the minted id, and
\* that id is in no caller's hands.
C39_RequestOutlivesCaller ==
    /\ [](/\ actor_pc = "stopped" => deq = enq
          /\ (last.req /= NoReq /\ ~last.heard) =>
                /\ ~last.listening
                /\ last.out \in RunMatch(last.before, LastCounterBefore, last.req.body)
                /\ (LastKind = "Create" /\ LastReply.ok) =>
                      /\ last.minted.v \in DOMAIN last.out.store
                      /\ LastReply = Ok(IdVal(last.minted.v))
                      /\ returned.val /= LastReply
                      /\ \A t \in Tasks : inbox[t] /= LastReply)
    /\ [][\A i \in 1..Len(mailbox) :
            \/ \E j \in 1..Len(mailbox') : mailbox'[j] = mailbox[i]
            \/ (actor_pc' = "handling" /\ current' = mailbox[i])]_vars

\* A Create whose caller dropped the call while the request was in the
\* mailbox has stored its instance; nobody was told the id.
C39_Witness ==
    /\ last.req /= NoReq /\ ~last.heard
    /\ LastKind = "Create" /\ LastReplied /\ LastReply.ok
    /\ actor_pc /= "stopped"
    /\ last.minted.v \in DOMAIN store
    /\ returned.val /= LastReply

\* C37: whatever id the generator returned, a Create whose hooks succeeded
\* replied Ok(id) and left the new instance under that id, in the place of the
\* entity stored there before if there was one, and every other entry as it
\* was; a Create fails only with the error of a hook that failed, never
\* because its id is a key.
C37_CollisionsReplace ==
    /\ (LastKind = "Create" /\ LastReplied /\ LastReply.ok) =>
          LET id == last.minted.v IN
          /\ LastReply = Ok(IdVal(id))
          /\ DOMAIN last.out.store = DOMAIN last.before \cup {id}
          /\ last.out.store[id] = last.out.built.v
          /\ last.out.store[id] = SimpleUserFromCreate(id, last.req.body.payload)
          /\ \A k \in DOMAIN last.before \ {id} : last.out.store[k] = last.before[k]
    /\ LastKind = "Create" => LastReplied
    /\ LastFailedCreate =>
          /\ LastHookFailed
          /\ LastReply.err \in {Custom(HookError("from_create")),
                                Custom(HookError("on_create"))}

\* A Create was given an id under which a promoted user was stored: it
\* succeeded, and the store holds the new, unpromoted user under the id.
C37_Witness ==
    /\ LastKind = "Create" /\ LastReplied /\ LastReply.ok
    /\ last.minted.v \in DOMAIN last.before
    /\ last.before[last.minted.v].is_admin
    /\ ~last.out.store[last.minted.v].is_admin

\* ------------------------------------------------------------- later properties of the order system
\* The requests waiting in the product actor's channel.
ProductMailbox == actors["product"].mailbox

\* C36: for every stored product the amounts of the reservations answered
\* with success and the product's quantity add up to the quantity it was
\* created with, whatever the order in which the reservations of the callers
\* reached the actor; so the reserved total is never above the initial stock.
C36_NoOversell ==
    /\ \A id \in DOMAIN actors["product"].store :
          LET total == IF id \in DOMAIN granted THEN granted[id] ELSE 0 IN
          /\ total + actors["product"].store[id].quantity = TestProduct.quantity
          /\ total <= TestProduct.quantity
    /\ \A id \in DOMAIN granted : granted[id] <= TestProduct.quantity

\* Two reservations were granted, the second while a reservation of another
\* task was waiting in the channel; together they took the whole stock.
C36_Witness ==
    /\ "product_1" \in DOMAIN granted /\ granted["product_1"] = TestProduct.quantity
    /\ "product_1" \in DOMAIN actors["product"].store
    /\ actors["product"].store["product_1"].quantity = 0
    /\ served.actor = "product" /\ served.body.kind = "Action"
    /\ served.body.action.op = "ReserveStock" /\ ServedReply.ok
    /\ \E i \in 1..Len(ProductMailbox) :
          /\ ProductMailbox[i].task /= served.task
          /\ ProductMailbox[i].body.kind = "Action"
          /\ ProductMailbox[i].body.action.op = "ReserveStock"

\* The requests waiting in any actor's channel.
Waiting == UNION {Range(actors[a].mailbox) : a \in ActorNames}

\* C38: nothing but Get, ReserveStock, CheckStock and Create is ever sent,
\* and no product is created after main's; the quantity of a stored product
\* never goes up; the stock taken by granted reservations stays taken, so as
\* long as the product is stored its quantity is at most what the order's
\* reservation left, also after the order's Create failed and after its
\* caller gave up.
C38_NoCompensation ==
    /\ [](/\ \A r \in Waiting : r.body.kind \in {"Create", "Get", "Action"}
          /\ served.body.kind \in {"None", "Create", "Get", "Action"}
          /\ actors["product"].counter <= 2
          /\ \A t \in Running("create_order") :
                LET f == flow[t] IN
                /\ f.sent = SubSeq(WorkflowRequests(f.op.order), 1, Len(f.sent))
                /\ (StepSucceeded(f, 3)
                    /\ f.op.order.product_id \in DOMAIN actors["product"].store) =>
                      actors["product"].store[f.op.order.product_id].quantity
                          <= TestProduct.quantity - f.op.order.quantity
          /\ \A id \in DOMAIN actors["product"].store :
                /\ id \in DOMAIN granted =>
                      actors["product"].store[id].quantity
                          = TestProduct.quantity - granted[id]
                /\ id \notin DOMAIN granted =>
                      actors["product"].store[id].quantity = TestProduct.quantity)
    /\ [][\A id \in DOMAIN actors["product"].store :
            id \in DOMAIN actors'["product"].store =>
                actors'["product"].store[id].quantity
                    <= actors["product"].store[id].quantity]_vars

\* One create_order had its stock reserved and its Create refused because the
\* order actor was gone, another was dropped by its caller with its stock
\* reserved and its Create not sent: no order is stored and the stock of both
\* is still taken.
C38_Witness ==
    /\ \E t \in Finished("create_order") :
          /\ StepSucceeded(flow[t], 3)
          /\ Len(flow[t].replies) = 4 /\ ~flow[t].replies[4].ok
          /\ flow[t].result.err.kind = "ActorCommunicationError"
    /\ \E t \in Running("create_order") :
          /\ flow[t].phase = "dropped"
          /\ Len(flow[t].sent) = 3
    /\ "product_1" \in DOMAIN actors["product"].store
    /\ actors["product"].store["product_1"].quantity = 0
    /\ actors["order"].store = EmptyStore

\* The arm just run was for an id that was in the store.
ServedOnPresent(kind) ==
    /\ served.body.kind = kind
    /\ served.body.id \in DOMAIN served.before

\* C40: every instance in the store of the user, product and order actor has
\* the key it is stored under as its id; a Create stores its instance with the
\* id the generator produced, and an Update or Action on a stored instance
\* leaves the instance stored under the same key with the same id.
C40_KeyEqualsId ==
    /\ \A a \in ActorNames :
          \A k \in DOMAIN actors[a].store : actors[a].store[k].id = k
    /\ served.body.kind = "Create" =>
          LET id == Generated(served.actor, served.counter) IN
          /\ id \in DOMAIN served.out.store
          /\ served.out.store[id].id = id
    /\ (ServedOnPresent("Update") \/ ServedOnPresent("Action")) =>
          /\ DOMAIN served.out.store = DOMAIN served.before
          /\ \A k \in DOMAIN served.before :
                served.out.store[k].id = served.before[k].id

\* All three stores hold an instance, the user was renamed by an Update, the
\* product's stock was taken by a ReserveStock and the last arm run was an
\* Update or an Action on a stored order.
C40_Witness ==
    /\ "user_1" \in DOMAIN actors["user"].store
    /\ actors["user"].store["user_1"].name = "Bob"
    /\ "product_1" \in DOMAIN actors["product"].store
    /\ actors["product"].store["product_1"].quantity = 5
    /\ "order_1" \in DOMAIN actors["order"].store
    /\ served.actor = "order"
    /\ (ServedOnPresent("Update") \/ ServedOnPresent("Action"))

\* C32: when shutdown has dropped the three clients and no task holds a
\* clone, the three actor loops end and shutdown returns Ok(()); as long as a
\* client of an actor is held by anyone that actor runs and shutdown has not
\* returned; shutdown returns nothing but Ok(()), and only with all three
\* actors finished.
C32_ShutdownByDrop ==
    /\ [](/\ \A a \in ActorNames :
                SenderAlive(a) => (actors[a].up /\ closing.result = NoReply)
          /\ closing.result /= NoReply =>
                /\ closing.result = Ok(Unit)
                /\ \A a \in ActorNames : ~actors[a].up)
    /\ (closing.dropped = 3 /\ \A t \in Tasks : clones[t] = {})
          ~> (closing.result = Ok(Unit) /\ \A a \in ActorNames : ~actors[a].up)

\* shutdown returned after a task had held a clone of the order client, sent
\* through it and dropped it.
C32_Witness ==
    /\ closing.result = Ok(Unit)
    /\ \A a \in ActorNames : ~actors[a].up
    /\ served.actor = "user"
    /\ nops = MaxSends

\* ------------------------------------------------------------- properties of the legacy services
\* C35: while UserService runs, the number of users it holds is the number of
\* CreateUser it answered Ok, 0 at the start, and the keys are user_1 ..
\* user_n for that n with next_id = n + 1; a CreateUser with an empty email is
\* answered ValidationError("Email required") and leaves users and next_id as
\* they were; a CreateUser with an email is answered the id made of the
\* next_id before and stores its user under it; GetUserCount answers the
\* number of users.
C35_LegacyUserCount ==
    /\ services["user"].up =>
          /\ Cardinality(DOMAIN users) = lhist.okCreates
          /\ user_next_id = lhist.okCreates + 1
          /\ DOMAIN users = {"user_" \o ToString(n) : n \in 1..lhist.okCreates}
          /\ lhist.last.msg.kind = "CreateUser" =>
                IF lhist.last.msg.user.email = ""
                THEN /\ lhist.last.result = Err(ValidationError("Email required"))
                     /\ users = lhist.last.users
                     /\ user_next_id = lhist.last.next_id
                ELSE /\ lhist.last.result
                            = Ok(IdVal("user_" \o ToString(lhist.last.next_id)))
                     /\ users = Insert(lhist.last.users,
                                       "user_" \o ToString(lhist.last.next_id),
                                       lhist.last.msg.user)
                     /\ user_next_id = lhist.last.next_id + 1
          /\ lhist.last.msg.kind = "GetUserCount" =>
                lhist.last.result = Ok([count |-> lhist.okCreates])
    /\ lhist.handled["user"] = 0 => users = EmptyStore

\* A create with an empty email was refused between two that succeeded: the
\* two users are user_1 and user_2.
C35_Witness ==
    /\ services["user"].up
    /\ lhist.handled["user"] = 3
    /\ lhist.okCreates = 2
    /\ DOMAIN users = {"user_1", "user_2"}
    /\ \E t \in Tasks : callers[t].result = Err(Text("User validation error: Email required"))

\* The request of task t is in the channel of a running service or in
\* handle_create_order.
InHand(t) ==
    \/ \E s \in LegacyServices :
          /\ services[s].up
          /\ \E i \in 1..Len(services[s].mailbox) : services[s].mailbox[i].from = t
    \/ handling.step > 0 /\ handling.caller = t

\* C33: the OrderService has left its loop before the UserService or the
\* ProductService leaves its own, and no call handle_create_order makes of a
\* sub-service fails because that service is gone.
C33_RootStopsFirst ==
    /\ \A i \in 1..Len(lhist.stopped) :
          lhist.stopped[i] /= "order" =>
              \E j \in 1..(i - 1) : lhist.stopped[j] = "order"
    /\ ~(handling.step > 0 /\ handling.reply = Err(channel_closed))

\* C34: once shutdown has sent its first Shutdown it returns Ok(()), with the
\* three services stopped; it returns nothing else and not before; a stopped
\* service stays stopped, handles nothing and has nothing in its channel; the
\* request of a pending client method is in the channel of a running service
\* or in handle_create_order, and every pending client method returns.
C34_LegacyShutdownTerminates ==
    /\ [](/\ shutdown.result /= NoReply =>
                /\ shutdown.result = Ok(Unit)
                /\ \A s \in LegacyServices : ~services[s].up
          /\ \A s \in LegacyServices : ~services[s].up => services[s].mailbox = <<>>
          /\ \A t \in Tasks : callers[t].pending => InHand(t))
    /\ [][\A s \in LegacyServices :
            ~services[s].up =>
                /\ ~services'[s].up
                /\ lhist'.handled[s] = lhist.handled[s]]_vars
    /\ (shutdown.sent > 0)
          ~> (shutdown.result = Ok(Unit) /\ \A s \in LegacyServices : ~services[s].up)
    /\ \A t \in Tasks : callers[t].pending ~> ~callers[t].pending

\* shutdown returned Ok(()) after a service had stopped with a request behind
\* its Shutdown, whose caller got the error, and a CreateOrder had been
\* answered.
C34_Witness ==
    /\ shutdown.result = Ok(Unit)
    /\ \A s \in LegacyServices : ~services[s].up
    /\ \E t \in Tasks : callers[t].result = Err(channel_closed)
    /\ lhist.handled["order"] > 0
    /\ lhist.calls = MaxLegacyCalls
====
